---- MODULE Spec2Model ----
(***************************************************************************)
(* Local sandbox runtime of packages/code-provider (providers/local):      *)
(* findAvailablePort, LocalSandboxRuntime (the process supervisor),        *)
(* LocalRuntimeRegistry and the LocalProvider operations that drive them.  *)
(*                                                                         *)
(* Scheduling follows the JavaScript event loop: one macrotask (an         *)
(* incoming call, an I/O completion, a child 'exit' event, a timer) runs   *)
(* at a time, and the microtask queue (continuations of awaits on          *)
(* promises that have settled) is drained before the next macrotask.       *)
(***************************************************************************)
EXTENDS Integers, Sequences, FiniteSets, TLC

\* ------------------------------------------------------------------ bounds
NumCallers == 2
MaxStarts == 3
MaxRuntimes == 2
MaxLogLines == 2
MaxAttempts == 6
NumPorts == 6
MaxAppends == 4
MaxIds == 5
MaxSuffix == 2
MaxMissing == 3
MaxRegistryStarts == 1
MaxEvents == 2
MaxCallbacks == 2
MaxMessages == 2
MaxTime == 3
NumTasks == 3
MaxUpdates == 3
MaxScale == 2
MaxScans == 3
NumSupervisors == 3

\* --------------------------------------------------------------- constants
DEFAULT_PREFERRED_PORT == 3000
DefaultAttempts == 20
DEFAULT_MAX_LOG_LINES == 200

Callers == 1..NumCallers
RtIds == 1..MaxRuntimes
ChildIds == 1..MaxStarts
SandboxIds == {"local-a"}
NoChild == 0
NoRuntime == 0
NoPromise == 0
NoPort == 0

VARIABLES
    runtimes,    \* LocalRuntimeRegistry.runtimes: sandboxId -> runtime (or NoRuntime)
    rt,          \* the LocalSandboxRuntime objects constructed so far
    child,       \* the ChildProcess handles returned by spawn()
    provider,    \* the LocalProvider object each caller holds
    call,        \* the operation each caller has in flight and where it is suspended
    reactions,   \* per promise (named by the caller that created it): the callers awaiting it
    microtasks,  \* the microtask queue: callers whose continuation is ready to run
    starts,      \* number of start-capable operations issued so far
    fp,          \* one run of findAvailablePort, probe by probe
    lg,          \* one log buffer and the entries appended to it so far
    disk,        \* LocalStorage: the directories under projectsDir
    projectDirIndex,  \* LocalStorage.projectDirIndex: project id -> directory
    generated,   \* LocalStorage: number of ids generateId() has handed out
    deleted,     \* LocalStorage: the project ids deleteProject has returned true for
    last,        \* LocalStorage: the last operation called and what it returned
    ready,       \* LocalStorage.ready: how the promise of initialize() settled
    watch,       \* one LocalFileWatcher, its subscription and what it delivered
    tasks,       \* LocalStorage operations in flight, suspended at an await
    file,        \* one canvas file as the file system holds it, piece by piece
    hints        \* LocalStorage.largeAssetHintedProjects and the advisories logged

otherVars == <<ready, watch, tasks, file, hints>>

vars == <<runtimes, rt, child, provider, call, reactions, microtasks, starts, fp,
          lg, disk, projectDirIndex, generated, deleted, last, otherVars>>

\* ------------------------------------------------------- findAvailablePort
\* The value findAvailablePort returns when the ports in occ refuse the trial
\* bind and every other port accepts it.
RECURSIVE FindLoop(_, _, _, _)
FindLoop(port, i, attempts, occ) ==
    IF i < attempts
    THEN IF port \notin occ THEN port ELSE FindLoop(port + 1, i + 1, attempts, occ)
    ELSE port

findAvailablePort(startPort, attempts, occ) == FindLoop(startPort, 0, attempts, occ)

\* ------------------------------------------------------------- log buffer
LogEntry(level, message) == [level |-> level, message |-> message]

appendLog(logBuffer, level, message) ==
    LET pushed == Append(logBuffer, LogEntry(level, message))
    IN  IF Len(pushed) > MaxLogLines
        THEN SubSeq(pushed, Len(pushed) - MaxLogLines + 1, Len(pushed))
        ELSE pushed

\* appendLog with the oldest-first eviction turned round: the entries beyond
\* the cap are dropped at the new end.
appendLogEvictNewest(logBuffer, maxLogLines, level, message) ==
    LET pushed == Append(logBuffer, LogEntry(level, message))
    IN  IF Len(pushed) > maxLogLines
        THEN SubSeq(pushed, 1, maxLogLines)
        ELSE pushed

\* appendLog of a runtime constructed with options.maxLogLines = maxLogLines:
\* push, then splice(0, length - maxLogLines) when the cap is exceeded.
appendLogCapped(logBuffer, maxLogLines, level, message) ==
    LET pushed == Append(logBuffer, LogEntry(level, message))
    IN  IF Len(pushed) > maxLogLines
        THEN SubSeq(pushed, Len(pushed) - maxLogLines + 1, Len(pushed))
        ELSE pushed

RECURSIVE FilterLevel(_, _)
FilterLevel(logBuffer, level) ==
    IF logBuffer = <<>> THEN <<>>
    ELSE IF Head(logBuffer).level = level
         THEN <<Head(logBuffer)>> \o FilterLevel(Tail(logBuffer), level)
         ELSE FilterLevel(Tail(logBuffer), level)

\* getLogs(level): a copy of the buffer, or its entries of one level
getLogs(logBuffer, level) ==
    IF level = "all" THEN logBuffer ELSE FilterLevel(logBuffer, level)

LogLevels == {"info", "warn", "error"}
LogLines == {"ready", "compiled"}

\* The log buffer of one runtime on its own: no runtime constructed yet.
LgIdle == [constructed |-> FALSE, maxLogLines |-> 0, logBuffer |-> <<>>, appended |-> <<>>]

\* ---------------------------------------------------------------- helpers
NumRuntimes == Cardinality({r \in RtIds : rt[r].exists})
NumChildren == Cardinality({k \in ChildIds : child[k].state # "none"})
SpawnedBy(r) == Cardinality({k \in ChildIds : child[k].state # "none" /\ child[k].rt = r})
AliveOf(r) == {k \in ChildIds : child[k].state = "alive" /\ child[k].rt = r}

\* Runtimes constructed, plus those that the registry removals still to come
\* and an empty registry slot allow to be constructed.
RuntimesNeeded ==
    NumRuntimes
    + Cardinality({d \in Callers : call[d].op = "stopProject" /\ call[d].pc # "resolved"})
    + Cardinality({s \in SandboxIds : runtimes[s] = NoRuntime})

IdleCall == [op |-> "none", pc |-> "idle", res |-> "ok", rt |-> NoRuntime,
             target |-> NoChild, spawnedAtCall |-> 0, idleAtCall |-> FALSE,
             stopRequested |-> FALSE]

\* A LocalSandboxRuntime as its constructor leaves it.  startSettled and
\* stopSettled are the states of the promise objects held in startPromise and
\* stopPromise ("pending", "fulfilled", "rejected").
NoRt == [exists |-> FALSE, sandboxId |-> "", process |-> NoChild,
         startPromise |-> NoPromise, startSettled |-> "pending",
         stopPromise |-> NoPromise, stopSettled |-> "pending",
         resolvedPort |-> NoPort, preferredPort |-> DEFAULT_PREFERRED_PORT,
         logBuffer |-> <<>>]

\* A ChildProcess handle: state is "alive" (an OS process exists), "exited"
\* (its 'exit' event has been emitted) or "dead" (spawn reported an error
\* through the 'error' event: there never was an OS process and no 'exit'
\* event will come).  onExit lists the callers whose stop() registered a
\* once('exit') listener, timers counts the armed 5 s timers of those stops.
NoChildRec == [state |-> "none", rt |-> NoRuntime, termCalls |-> 0, killCalls |-> 0,
               timers |-> 0, onExit |-> <<>>, signalled |-> "none", crashed |-> FALSE]

FpIdle == [pc |-> "idle", startPort |-> 0, attempts |-> 0, occ |-> {}, port |-> 0, i |-> 0,
           probed |-> <<>>, result |-> NoPort]

\* -------------------------------------------------- LocalStorage: data
\* Names are sequences of characters, so that the sanitising of a project
\* name into a directory name is computed and not assumed.
Foo == <<"F", "o", "o">>
Bar == <<"B", "a", "r">>
BarDot == <<"B", "a", "r", ".">>
UntitledProject ==
    <<"U", "n", "t", "i", "t", "l", "e", "d", " ", "P", "r", "o", "j", "e", "c", "t">>
ProjectNames == {Foo, Bar, BarDot}

Ids == 1..MaxIds
NoId == 0
NoDir == <<>>

RECURSIVE TrimStart(_)
TrimStart(name) ==
    IF name # <<>> /\ Head(name) = " " THEN TrimStart(Tail(name)) ELSE name

\* the name without the characters of chars it ends with
RECURSIVE StripTrailing(_, _)
StripTrailing(name, chars) ==
    IF name # <<>> /\ name[Len(name)] \in chars
    THEN StripTrailing(SubSeq(name, 1, Len(name) - 1), chars)
    ELSE name

normalizeProjectName(name) ==
    LET trimmed == StripTrailing(TrimStart(name), {" "})
    IN  IF name = <<>> THEN UntitledProject
        ELSE IF trimmed = <<>> THEN UntitledProject ELSE trimmed

ReservedChars == {"<", ">", ":", "/", "|", "?", "*"}

toDirectoryName(name) ==
    LET normalized == normalizeProjectName(name)
        sanitized == [i \in 1..Len(normalized) |->
                         IF normalized[i] \in ReservedChars THEN "-" ELSE normalized[i]]
        withoutTrailing == StripTrailing(sanitized, {".", " "})
    IN  IF withoutTrailing = <<>> THEN UntitledProject ELSE withoutTrailing

DigitChars == <<"0", "1", "2", "3", "4", "5", "6", "7", "8", "9">>

RECURSIVE Decimal(_)
Decimal(n) ==
    IF n < 10 THEN <<DigitChars[n + 1]>>
    ELSE Decimal(n \div 10) \o <<DigitChars[(n % 10) + 1]>>

\* `${baseName} (${attempt})`
CandidateName(baseName, attempt) ==
    IF attempt = 0 THEN baseName
    ELSE baseName \o <<" ", "(">> \o Decimal(attempt) \o <<")">>

\* the directory names the projects of ProjectNames can get
DirNames ==
    {CandidateName(toDirectoryName(name), n) : name \in ProjectNames, n \in 0..MaxSuffix}

RequiredSubdirectories ==
    {"files", "canvases", "conversations", "previews", "assets", "branches"}

NoMeta == [id |-> NoId, name |-> <<>>]

\* A path under projectsDir at which nothing exists.  Of a directory: meta is
\* the content of meta.json (NoMeta: no such file), subdirs the required
\* subdirectories present, branches / canvases / conversations the documents
\* in those subdirectories, framesDir whether the legacy frames/ directory
\* exists, legacy the frame files in it and malformed the document files
\* (by subdirectory and id) that parse as JSON and fail their schema; version
\* is the version field of meta.json (0: the field is absent) and brand
\* whether meta.json has a brand field.
NoDirectory == [exists |-> FALSE, meta |-> NoMeta, subdirs |-> {}, branches |-> {},
                canvases |-> {}, conversations |-> {}, framesDir |-> FALSE, legacy |-> {},
                malformed |-> {}, version |-> 0, brand |-> FALSE]

\* The last LocalStorage operation called: its arguments, how it ended
\* (result), the id of the document it returned (ret), the project directory
\* it settled on (dir), the frames it returned (frames), the ids of the
\* documents a list operation returned (listed), whether a document file was
\* written (wrote), the version of the conversation returned (version) and
\* the messages returned, in order (messages), and the message of the
\* access error it threw (message).
NoMessage == [shape |-> "none", path |-> "", detail |-> "none"]

NoCall == [op |-> "none", projectId |-> NoId, id |-> NoId, canvasId |-> NoId,
           branchId |-> NoId, result |-> "none", ret |-> NoId, dir |-> NoDir,
           frames |-> {}, listed |-> {}, wrote |-> FALSE, version |-> 0,
           messages |-> <<>>, message |-> NoMessage]

CONVERSATION_FILE_VERSION == 1
NoVersion == 0
NoConversation == [id |-> NoId, projectId |-> NoId, version |-> NoVersion,
                   messages |-> <<>>]

NoCanvas == [id |-> NoId, projectId |-> NoId, frames |-> <<>>]

\* The promise of initialize() fulfilled
Resolved == [state |-> "resolved", message |-> NoMessage]
NoWatch == [state |-> "none"]
NoTasks == <<>>

\* No advisory logged for any assets directory
NoHints == [hinted |-> {}, warned |-> <<>>]

\* No canvas file: nothing written, and no update (numbered from 1) wrote it
NoFile == [content |-> <<>>, writer |-> 0]

InitDocuments ==
    /\ disk = [d \in DirNames |-> NoDirectory]
    /\ projectDirIndex = [i \in Ids |-> NoDir]
    /\ generated = 0
    /\ deleted = {}
    /\ last = NoCall

InitOther ==
    /\ ready = Resolved
    /\ watch = NoWatch
    /\ tasks = NoTasks
    /\ file = NoFile
    /\ hints = NoHints

InitStore ==
    /\ InitOther
    /\ InitDocuments

InitRuntime ==
    /\ runtimes = [s \in SandboxIds |-> NoRuntime]
    /\ rt = [r \in RtIds |-> NoRt]
    /\ child = [k \in ChildIds |-> NoChildRec]
    /\ provider = [c \in Callers |-> [sandboxId |-> "local-a", runtime |-> NoRuntime]]
    /\ call = [c \in Callers |-> IdleCall]
    /\ reactions = [c \in Callers |-> <<>>]
    /\ microtasks = <<>>
    /\ starts = 0

Init == InitRuntime /\ fp = FpIdle /\ lg = LgIdle /\ InitStore

\* ------------------------------------------------- LocalRuntimeRegistry
\* getOrCreate(options): the runtime it returns, and the registry and the
\* runtime objects after the call.
getOrCreateAlwaysNew(s) == NumRuntimes + 1

getOrCreate(s) == IF runtimes[s] # NoRuntime THEN runtimes[s] ELSE NumRuntimes + 1

RuntimesAfterGetOrCreate(s) == [runtimes EXCEPT ![s] = getOrCreate(s)]

RtAfterGetOrCreate(s, preferredPort) ==
    IF runtimes[s] # NoRuntime
    THEN rt
    ELSE [rt EXCEPT ![getOrCreate(s)] =
              [NoRt EXCEPT !.exists = TRUE, !.sandboxId = s, !.preferredPort = preferredPort]]

remove(s) == [runtimes EXCEPT ![s] = NoRuntime]

\* ------------------------------------------------- LocalSandboxRuntime
\* Where the caller of ensureStarted() / stop() continues once the promise the
\* call returned has settled; the continuation is a microtask.
AfterStartPc(op, res) ==
    IF res = "err" THEN "rejected"
    ELSE IF op = "ensureStarted" THEN "resolved" ELSE "afterStart"

AfterStopPc(op) == IF op = "stop" THEN "resolved" ELSE "afterStop"

\* ensureStarted without the memoized start promise: every caller that finds
\* no process starts its own spawnProcess.
ensureStartedUnmemoized(c, r, cl, mq, rtv) ==
    LET me == [cl EXCEPT !.rt = r, !.spawnedAtCall = SpawnedBy(r),
                         !.idleAtCall = (rtv[r].process = NoChild)]
    IN  IF rtv[r].process # NoChild
        THEN /\ call' = [call EXCEPT ![c] = [me EXCEPT !.pc = AfterStartPc(me.op, "ok"),
                                                       !.res = "ok"]]
             /\ microtasks' = Append(mq, c)
             /\ rt' = rtv
             /\ reactions' = reactions
        ELSE /\ rt' = [rtv EXCEPT ![r].startPromise = c, ![r].startSettled = "pending"]
             /\ call' = [call EXCEPT ![c] = [me EXCEPT !.pc = "spMkdir"]]
             /\ microtasks' = mq
             /\ reactions' = reactions

\* ensureStarted() called by c on runtime r, run up to its first suspension.
\* cl is c's call record, mq the microtasks still queued, rtv the runtime
\* objects as the caller's step has left them so far.
ensureStarted(c, r, cl, mq, rtv) ==
    LET me == [cl EXCEPT !.rt = r, !.spawnedAtCall = SpawnedBy(r),
                         !.idleAtCall = (rtv[r].process = NoChild)]
        o == rtv[r].startPromise
    IN  IF rtv[r].process # NoChild
        THEN /\ call' = [call EXCEPT ![c] = [me EXCEPT !.pc = AfterStartPc(me.op, "ok"),
                                                       !.res = "ok"]]
             /\ microtasks' = Append(mq, c)
             /\ rt' = rtv
             /\ reactions' = reactions
        ELSE IF o # NoPromise
        THEN IF rtv[r].startSettled = "pending"
             THEN /\ call' = [call EXCEPT ![c] = [me EXCEPT !.pc = "startWait"]]
                  /\ reactions' = [reactions EXCEPT ![o] = Append(@, c)]
                  /\ microtasks' = mq
                  /\ rt' = rtv
             ELSE /\ call' = [call EXCEPT ![c] =
                                 [me EXCEPT !.pc = "startWaitResume",
                                            !.res = IF rtv[r].startSettled = "fulfilled"
                                                    THEN "ok" ELSE "err"]]
                  /\ microtasks' = Append(mq, c)
                  /\ rt' = rtv
                  /\ reactions' = reactions
        ELSE /\ rt' = [rtv EXCEPT ![r].startPromise = c, ![r].startSettled = "pending"]
             /\ call' = [call EXCEPT ![c] = [me EXCEPT !.pc = "spMkdir"]]
             /\ microtasks' = mq
             /\ reactions' = reactions

\* stop without the memoized stop promise: every caller that finds a process
\* signals it and arms a timer.
stopUnmemoized(c, r, cl, mq) ==
    LET k == rt[r].process
        me == [cl EXCEPT !.rt = r, !.target = k]
    IN  IF k = NoChild
        THEN /\ call' = [call EXCEPT ![c] = [me EXCEPT !.pc = AfterStopPc(me.op)]]
             /\ microtasks' = Append(mq, c)
             /\ UNCHANGED <<rt, child, reactions>>
        ELSE /\ child' = [child EXCEPT ![k].onExit = Append(@, c),
                                       ![k].termCalls = @ + 1,
                                       ![k].signalled = IF child[k].state = "alive"
                                                        THEN "SIGTERM" ELSE @,
                                       ![k].timers = @ + 1]
             /\ rt' = [rt EXCEPT ![r].stopPromise = c, ![r].stopSettled = "pending"]
             /\ call' = [call EXCEPT ![c] = [me EXCEPT !.pc = "stopOwnerWait"]]
             /\ microtasks' = mq
             /\ reactions' = reactions

\* stop that returns once the signal is sent, without awaiting the exit.
stopWithoutAwait(c, r, cl, mq) ==
    LET k == rt[r].process
        me == [cl EXCEPT !.rt = r, !.target = k]
    IN  IF k = NoChild
        THEN /\ call' = [call EXCEPT ![c] = [me EXCEPT !.pc = AfterStopPc(me.op)]]
             /\ microtasks' = Append(mq, c)
             /\ UNCHANGED <<rt, child, reactions>>
        ELSE /\ child' = [child EXCEPT ![k].termCalls = @ + 1,
                                       ![k].signalled = IF child[k].state = "alive"
                                                        THEN "SIGTERM" ELSE @,
                                       ![k].timers = @ + 1]
             /\ call' = [call EXCEPT ![c] = [me EXCEPT !.pc = AfterStopPc(me.op)]]
             /\ microtasks' = Append(mq, c)
             /\ UNCHANGED <<rt, reactions>>

\* stop() called by c on runtime r, run up to its first suspension.
\* A stop() that finds no process while a start is in flight is noted in the
\* record of the caller that owns the start (stopRequested).
stop(c, r, cl, mq) ==
    LET k == rt[r].process
        me == [cl EXCEPT !.rt = r, !.target = k]
        o == rt[r].stopPromise
    IN  IF k = NoChild
        THEN /\ call' = [d \in Callers |->
                           IF d = c THEN [me EXCEPT !.pc = AfterStopPc(me.op)]
                           ELSE IF d = rt[r].startPromise /\ me.op = "stop"
                                THEN [call[d] EXCEPT !.stopRequested = TRUE]
                                ELSE call[d]]
             /\ microtasks' = Append(mq, c)
             /\ UNCHANGED <<rt, child, reactions>>
        ELSE IF o # NoPromise
        THEN IF rt[r].stopSettled = "pending"
             THEN /\ call' = [call EXCEPT ![c] = [me EXCEPT !.pc = "stopWait"]]
                  /\ reactions' = [reactions EXCEPT ![o] = Append(@, c)]
                  /\ microtasks' = mq
                  /\ UNCHANGED <<rt, child>>
             ELSE /\ call' = [call EXCEPT ![c] = [me EXCEPT !.pc = "stopWaitResume"]]
                  /\ microtasks' = Append(mq, c)
                  /\ UNCHANGED <<rt, child, reactions>>
        ELSE /\ child' = [child EXCEPT ![k].onExit = Append(@, c),
                                       ![k].termCalls = @ + 1,
                                       ![k].signalled = IF child[k].state = "alive"
                                                        THEN "SIGTERM" ELSE @,
                                       ![k].timers = @ + 1]
             /\ rt' = [rt EXCEPT ![r].stopPromise = c, ![r].stopSettled = "pending"]
             /\ call' = [call EXCEPT ![c] = [me EXCEPT !.pc = "stopOwnerWait"]]
             /\ microtasks' = mq
             /\ reactions' = reactions

\* restart(): await this.stop() is its first suspension.
restart(c, r, cl, mq) == stop(c, r, cl, mq)

\* The promise created by owner settles: the owner awaits it first, then the
\* callers that attached to it, in the order they attached.
RECURSIVE ReactionJobs(_)
ReactionJobs(owners) ==
    IF owners = <<>> THEN <<>>
    ELSE <<Head(owners)>> \o reactions[Head(owners)] \o ReactionJobs(Tail(owners))

InSeq(x, sq) == \E i \in 1..Len(sq) : sq[i] = x
IsReactionOf(c, owners) == \E i \in 1..Len(owners) : InSeq(c, reactions[owners[i]])

\* ------------------------------------------------------------ macrotasks
\* new LocalProvider(options): the constructor looks the runtime up.
Construct(c) ==
    /\ microtasks = <<>>
    /\ call[c].pc = "idle"
    /\ getOrCreate(provider[c].sandboxId) \in RtIds
    /\ LET s == provider[c].sandboxId
       IN  /\ provider' = [provider EXCEPT ![c].runtime = getOrCreate(s)]
           /\ runtimes' = RuntimesAfterGetOrCreate(s)
           /\ rt' = RtAfterGetOrCreate(s, DEFAULT_PREFERRED_PORT)
    /\ UNCHANGED <<child, call, reactions, microtasks, starts, fp, lg, disk, projectDirIndex, generated, deleted, last, otherVars>>

\* getTask / createSession / reconnect / LocalDevTask.run: runtime.ensureStarted()
CallEnsureStarted(c) ==
    /\ microtasks = <<>>
    /\ call[c].pc = "idle"
    /\ provider[c].runtime # NoRuntime
    /\ starts < MaxStarts
    /\ starts' = starts + 1
    /\ ensureStarted(c, provider[c].runtime, [IdleCall EXCEPT !.op = "ensureStarted"], <<>>, rt)
    /\ UNCHANGED <<runtimes, child, provider, fp, lg, disk, projectDirIndex, generated, deleted, last, otherVars>>

\* pauseProject / LocalDevTask.stop / LocalBackgroundCommand.kill: runtime.stop()
CallStop(c) ==
    /\ microtasks = <<>>
    /\ call[c].pc = "idle"
    /\ provider[c].runtime # NoRuntime
    /\ stop(c, provider[c].runtime, [IdleCall EXCEPT !.op = "stop"], <<>>)
    /\ UNCHANGED <<runtimes, provider, starts, fp, lg, disk, projectDirIndex, generated, deleted, last, otherVars>>

\* reload / LocalDevTask.restart: runtime.restart()
CallRestart(c) ==
    /\ microtasks = <<>>
    /\ call[c].pc = "idle"
    /\ provider[c].runtime # NoRuntime
    /\ starts < MaxStarts
    /\ starts' = starts + 1
    /\ restart(c, provider[c].runtime, [IdleCall EXCEPT !.op = "restart"], <<>>)
    /\ UNCHANGED <<runtimes, provider, fp, lg, disk, projectDirIndex, generated, deleted, last, otherVars>>

\* stopProject: await this.runtime.stop(), then LocalRuntimeRegistry.remove
CallStopProject(c) ==
    /\ microtasks = <<>>
    /\ call[c].pc = "idle"
    /\ provider[c].runtime # NoRuntime
    /\ RuntimesNeeded < MaxRuntimes
    /\ stop(c, provider[c].runtime, [IdleCall EXCEPT !.op = "stopProject"], <<>>)
    /\ UNCHANGED <<runtimes, provider, starts, fp, lg, disk, projectDirIndex, generated, deleted, last, otherVars>>

\* initialize: suspended in ensureDirectoryExists / options.getSession
CallInitialize(c) ==
    /\ microtasks = <<>>
    /\ call[c].pc = "idle"
    /\ provider[c].runtime # NoRuntime
    /\ starts < MaxStarts
    /\ starts' = starts + 1
    /\ call' = [call EXCEPT ![c] = [IdleCall EXCEPT !.op = "initialize", !.pc = "initIO",
                                                   !.rt = provider[c].runtime]]
    /\ UNCHANGED <<runtimes, rt, child, provider, reactions, microtasks, fp, lg, disk, projectDirIndex, generated, deleted, last, otherVars>>

\* initialize resumes: the I/O failed, or the session arrived and the runtime
\* is looked up again with the session's port and started.
InitializeIO(c, ok, sessionPort) ==
    /\ microtasks = <<>>
    /\ call[c].pc = "initIO"
    /\ getOrCreate(provider[c].sandboxId) \in RtIds
    /\ IF ok
       THEN LET s == provider[c].sandboxId
                r == getOrCreate(s)
            IN  /\ provider' = [provider EXCEPT ![c].runtime = r]
                /\ runtimes' = RuntimesAfterGetOrCreate(s)
                /\ ensureStarted(c, r, call[c], <<>>, RtAfterGetOrCreate(s, sessionPort))
       ELSE /\ call' = [call EXCEPT ![c].pc = "rejected", ![c].res = "err"]
            /\ microtasks' = <<c>>
            /\ UNCHANGED <<runtimes, rt, provider, reactions>>
    /\ UNCHANGED <<child, starts, fp, lg, disk, projectDirIndex, generated, deleted, last, otherVars>>

\* The start promise created by owner c settles with res.
SettleStart(c, res, rtv, childv) ==
    LET r == call[c].rt
    IN  /\ rt' = [rtv EXCEPT ![r].startSettled =
                      IF rtv[r].startPromise = c
                      THEN (IF res = "ok" THEN "fulfilled" ELSE "rejected") ELSE @]
        /\ child' = childv
        /\ call' = [d \in Callers |->
                      IF d = c THEN [call[d] EXCEPT !.pc = "startOwner", !.res = res]
                      ELSE IF InSeq(d, reactions[c])
                           THEN [call[d] EXCEPT !.pc = "startWaitResume", !.res = res]
                           ELSE call[d]]
        /\ microtasks' = <<c>> \o reactions[c]
        /\ reactions' = [reactions EXCEPT ![c] = <<>>]

\* spawnProcess: ensureDirectoryExists(projectPath) completes
MkdirDone(c, ok) ==
    /\ microtasks = <<>>
    /\ call[c].pc = "spMkdir"
    /\ IF ok
       THEN /\ call' = [call EXCEPT ![c].pc = "spPort"]
            /\ UNCHANGED <<rt, child, reactions, microtasks>>
       ELSE SettleStart(c, "err", rt, child)
    /\ UNCHANGED <<runtimes, provider, starts, fp, lg, disk, projectDirIndex, generated, deleted, last, otherVars>>

\* spawnProcess: findAvailablePort returns, the command is spawned.  spawn()
\* returns a live child ("ok"), throws ("throw"), or returns a handle that
\* reports the failure through an 'error' event ("error", e.g. ENOENT), for
\* which spawnProcess registers no listener.
SpawnOutcomes == {"ok", "throw", "error"}

SpawnDone(c, occ, outcome) ==
    /\ microtasks = <<>>
    /\ call[c].pc = "spPort"
    /\ LET r == call[c].rt
           port == findAvailablePort(rt[r].preferredPort, DefaultAttempts, occ)
           k == NumChildren + 1
           logged == [rt EXCEPT ![r].resolvedPort = port,
                                ![r].logBuffer = appendLog(@, "info", "Starting sandbox on port")]
       IN  IF outcome = "throw"
           THEN SettleStart(c, "err", logged, child)
           ELSE SettleStart(c, "ok", [logged EXCEPT ![r].process = k],
                            [child EXCEPT ![k] = [NoChildRec EXCEPT
                                  !.state = IF outcome = "ok" THEN "alive" ELSE "dead",
                                  !.rt = r]])
    /\ UNCHANGED <<runtimes, provider, starts, fp, lg, disk, projectDirIndex, generated, deleted, last, otherVars>>

\* An 'exit' listener of spawnProcess that logs but keeps the handle: only
\* the once('exit') listener of a stop() clears it.
ChildExitKeepsHandle(k) ==
    /\ microtasks = <<>>
    /\ child[k].state = "alive"
    /\ LET r == child[k].rt
           owners == child[k].onExit
       IN  /\ rt' = [rt EXCEPT ![r].logBuffer = appendLog(@, "warn", "Sandbox exited with"),
                              ![r].process = IF owners # <<>> THEN NoChild ELSE @,
                              ![r].stopSettled =
                                  IF InSeq(rt[r].stopPromise, owners) THEN "fulfilled" ELSE @]
           /\ child' = [child EXCEPT ![k].state = "exited", ![k].onExit = <<>>,
                                     ![k].crashed = (child[k].signalled = "none")]
           /\ call' = [d \in Callers |->
                         IF InSeq(d, owners) THEN [call[d] EXCEPT !.pc = "stopOwner"]
                         ELSE IF IsReactionOf(d, owners)
                              THEN [call[d] EXCEPT !.pc = "stopWaitResume"]
                              ELSE call[d]]
           /\ microtasks' = ReactionJobs(owners)
           /\ reactions' = [d \in Callers |-> IF InSeq(d, owners) THEN <<>> ELSE reactions[d]]
    /\ UNCHANGED <<runtimes, provider, starts, fp, lg, disk, projectDirIndex, generated, deleted, last, otherVars>>

\* The 'exit' event of child k: the listener of spawnProcess logs and clears
\* the handle, then the once('exit') listeners of stop() clear it and resolve.
ChildExit(k) ==
    /\ microtasks = <<>>
    /\ child[k].state = "alive"
    /\ LET r == child[k].rt
           owners == child[k].onExit
       IN  /\ rt' = [rt EXCEPT ![r].logBuffer = appendLog(@, "warn", "Sandbox exited with"),
                              ![r].process = NoChild,
                              ![r].stopSettled =
                                  IF InSeq(rt[r].stopPromise, owners) THEN "fulfilled" ELSE @]
           /\ child' = [child EXCEPT ![k].state = "exited", ![k].onExit = <<>>,
                                     ![k].crashed = (child[k].signalled = "none")]
           /\ call' = [d \in Callers |->
                         IF InSeq(d, owners) THEN [call[d] EXCEPT !.pc = "stopOwner"]
                         ELSE IF IsReactionOf(d, owners)
                              THEN [call[d] EXCEPT !.pc = "stopWaitResume"]
                              ELSE call[d]]
           /\ microtasks' = ReactionJobs(owners)
           /\ reactions' = [d \in Callers |-> IF InSeq(d, owners) THEN <<>> ELSE reactions[d]]
    /\ UNCHANGED <<runtimes, provider, starts, fp, lg, disk, projectDirIndex, generated, deleted, last, otherVars>>

\* A 5 s timer armed by a stop() of child k fires.
ForceKillTimer(k) ==
    /\ microtasks = <<>>
    /\ child[k].timers > 0
    /\ LET r == child[k].rt
       IN  IF rt[r].process # NoChild
           THEN /\ rt' = [rt EXCEPT ![r].logBuffer = appendLog(@, "warn", "Force killing sandbox process after timeout")]
                /\ child' = [child EXCEPT ![k].timers = @ - 1,
                                          ![k].killCalls = @ + 1,
                                          ![k].signalled = IF child[k].state = "alive"
                                                           THEN "SIGKILL" ELSE @]
           ELSE /\ rt' = rt
                /\ child' = [child EXCEPT ![k].timers = @ - 1]
    /\ UNCHANGED <<runtimes, provider, call, reactions, microtasks, starts, fp, lg, disk, projectDirIndex, generated, deleted, last, otherVars>>

\* ------------------------------------------------------------ microtasks
\* The continuation at the head of the microtask queue runs.
Microtask ==
    /\ microtasks # <<>>
    /\ LET c == Head(microtasks)
           mq == Tail(microtasks)
           r == call[c].rt
           pc == call[c].pc
           op == call[c].op
       IN  CASE pc = "startOwner" ->
                  \* finally { this.startPromise = null }
                  /\ rt' = [rt EXCEPT ![r].startPromise = NoPromise]
                  /\ call' = [call EXCEPT ![c].pc = AfterStartPc(op, call[c].res)]
                  /\ microtasks' = Append(mq, c)
                  /\ UNCHANGED <<runtimes, child, reactions>>
             [] pc = "startWaitResume" ->
                  /\ call' = [call EXCEPT ![c].pc = AfterStartPc(op, call[c].res)]
                  /\ microtasks' = Append(mq, c)
                  /\ UNCHANGED <<runtimes, rt, child, reactions>>
             [] pc = "stopOwner" ->
                  \* finally { this.stopPromise = null }
                  /\ rt' = [rt EXCEPT ![r].stopPromise = NoPromise]
                  /\ call' = [call EXCEPT ![c].pc = AfterStopPc(op)]
                  /\ microtasks' = Append(mq, c)
                  /\ UNCHANGED <<runtimes, child, reactions>>
             [] pc = "stopWaitResume" ->
                  /\ call' = [call EXCEPT ![c].pc = AfterStopPc(op)]
                  /\ microtasks' = Append(mq, c)
                  /\ UNCHANGED <<runtimes, rt, child, reactions>>
             [] pc = "afterStop" /\ op = "restart" ->
                  /\ ensureStarted(c, r, call[c], mq, rt)
                  /\ UNCHANGED <<runtimes, child>>
             [] pc = "afterStop" /\ op # "restart" ->
                  /\ runtimes' = remove(provider[c].sandboxId)
                  /\ call' = [call EXCEPT ![c].pc = "resolved"]
                  /\ microtasks' = Append(mq, c)
                  /\ UNCHANGED <<rt, child, reactions>>
             [] pc = "afterStart" ->
                  /\ rt' = IF op = "restart"
                           THEN [rt EXCEPT ![r].logBuffer = appendLog(@, "info", "Sandbox restarted")]
                           ELSE rt
                  /\ call' = [call EXCEPT ![c].pc = "resolved"]
                  /\ microtasks' = Append(mq, c)
                  /\ UNCHANGED <<runtimes, child, reactions>>
             [] pc \in {"resolved", "rejected"} ->
                  /\ call' = [call EXCEPT ![c] = IdleCall]
                  /\ microtasks' = mq
                  /\ UNCHANGED <<runtimes, rt, child, reactions>>
    /\ UNCHANGED <<provider, starts, fp, lg, disk, projectDirIndex, generated, deleted, last, otherVars>>

\* The sets of ports another process holds when findAvailablePort probes.
OccupiedChoices == {{}, {DEFAULT_PREFERRED_PORT}}
SessionPorts == {DEFAULT_PREFERRED_PORT}

Next ==
    \/ \E c \in Callers : Construct(c)
    \/ \E c \in Callers : CallEnsureStarted(c)
    \/ \E c \in Callers : CallStop(c)
    \/ \E c \in Callers : CallRestart(c)
    \/ \E c \in Callers : CallStopProject(c)
    \/ \E c \in Callers : CallInitialize(c)
    \/ \E c \in Callers, ok \in BOOLEAN, p \in SessionPorts : InitializeIO(c, ok, p)
    \/ \E c \in Callers, ok \in BOOLEAN : MkdirDone(c, ok)
    \/ \E c \in Callers, occ \in OccupiedChoices, o \in SpawnOutcomes : SpawnDone(c, occ, o)
    \/ \E k \in ChildIds : ChildExit(k)
    \/ \E k \in ChildIds : ForceKillTimer(k)
    \/ Microtask

Spec == Init /\ [][Next]_vars

\* One supervisor on its own: the registry has constructed the runtime of
\* "local-a", every caller holds a provider of it, and the callers use
\* ensureStarted, stop and restart.
InitSupervisor ==
    /\ runtimes = [s \in SandboxIds |-> 1]
    /\ rt = [r \in RtIds |-> IF r = 1
                             THEN [NoRt EXCEPT !.exists = TRUE, !.sandboxId = "local-a"]
                             ELSE NoRt]
    /\ child = [k \in ChildIds |-> NoChildRec]
    /\ provider = [c \in Callers |-> [sandboxId |-> "local-a", runtime |-> 1]]
    /\ call = [c \in Callers |-> IdleCall]
    /\ reactions = [c \in Callers |-> <<>>]
    /\ microtasks = <<>>
    /\ starts = 0
    /\ fp = FpIdle
    /\ lg = LgIdle
    /\ InitStore

NextSupervisor ==
    \/ \E c \in Callers : CallEnsureStarted(c)
    \/ \E c \in Callers : CallStop(c)
    \/ \E c \in Callers : CallRestart(c)
    \/ \E c \in Callers, ok \in BOOLEAN : MkdirDone(c, ok)
    \/ \E c \in Callers, occ \in OccupiedChoices, o \in SpawnOutcomes : SpawnDone(c, occ, o)
    \/ \E k \in ChildIds : ChildExit(k)
    \/ \E k \in ChildIds : ForceKillTimer(k)
    \/ Microtask

SpecSupervisor == InitSupervisor /\ [][NextSupervisor]_vars

\* ------------------------------------------- findAvailablePort, stepwise
\* One call of findAvailablePort(startPort, attempts): every trial bind is an
\* I/O round trip, and the ports other processes hold (fp.occ) may change
\* between two trials.  fp.probed records the trials made: <<port, available>>.
Ports == DEFAULT_PREFERRED_PORT..(DEFAULT_PREFERRED_PORT + NumPorts - 1)
StartPorts == {DEFAULT_PREFERRED_PORT, DEFAULT_PREFERRED_PORT + 1}

\* the trial bind: 'listening' (TRUE) or 'error' (FALSE)
TrialBind(port, occ) == port \notin occ

\* port += 2
NextProbeSkipping(port) == port + 2

\* port += 1
NextProbe(port) == port + 1

\* the loop condition i < attempts
MoreAttempts(i, attempts) == i < attempts

FpCall(startPort, attempts, occ) ==
    /\ fp.pc = "idle"
    /\ fp' = IF MoreAttempts(0, attempts)
             THEN [FpIdle EXCEPT !.pc = "probe", !.startPort = startPort, !.attempts = attempts,
                                 !.occ = occ, !.port = startPort]
             ELSE [FpIdle EXCEPT !.pc = "done", !.startPort = startPort, !.attempts = attempts,
                                 !.occ = occ, !.port = startPort, !.result = startPort]
    /\ UNCHANGED <<runtimes, rt, child, provider, call, reactions, microtasks, starts, lg, disk, projectDirIndex, generated, deleted, last, otherVars>>

FpProbe ==
    /\ fp.pc = "probe"
    /\ LET available == TrialBind(fp.port, fp.occ)
           probed == Append(fp.probed, <<fp.port, available>>)
       IN  IF available
           THEN fp' = [fp EXCEPT !.probed = probed, !.pc = "done", !.result = fp.port]
           ELSE IF MoreAttempts(fp.i + 1, fp.attempts)
                THEN fp' = [fp EXCEPT !.probed = probed, !.port = NextProbe(fp.port),
                                      !.i = fp.i + 1]
                ELSE fp' = [fp EXCEPT !.probed = probed, !.port = NextProbe(fp.port),
                                      !.i = fp.i + 1, !.pc = "done",
                                      !.result = NextProbe(fp.port)]
    /\ UNCHANGED <<runtimes, rt, child, provider, call, reactions, microtasks, starts, lg, disk, projectDirIndex, generated, deleted, last, otherVars>>

\* another process binds or releases port p while the probing is under way
FpPortChange(p) ==
    /\ fp.pc = "probe"
    /\ fp' = [fp EXCEPT !.occ = IF p \in fp.occ THEN fp.occ \ {p} ELSE fp.occ \cup {p}]
    /\ UNCHANGED <<runtimes, rt, child, provider, call, reactions, microtasks, starts, lg, disk, projectDirIndex, generated, deleted, last, otherVars>>

NextPort ==
    \/ \E sp \in StartPorts, a \in 0..MaxAttempts, occ \in SUBSET Ports : FpCall(sp, a, occ)
    \/ FpProbe
    \/ \E p \in Ports : FpPortChange(p)

SpecPort == Init /\ [][NextPort]_vars

\* ------------------------------------------------ the log buffer alone
\* A runtime is constructed with options.maxLogLines (default 200), and its
\* listeners append the lines the child writes; lg.appended records every
\* entry appended since the construction.
LogCaps == (0..MaxLogLines) \cup {DEFAULT_MAX_LOG_LINES}

LogConstruct(maxLogLines) ==
    /\ lg' = [LgIdle EXCEPT !.constructed = TRUE, !.maxLogLines = maxLogLines]
    /\ UNCHANGED <<runtimes, rt, child, provider, call, reactions, microtasks, starts, fp,
                   disk, projectDirIndex, generated, deleted, last, otherVars>>

LogAppend(level, message) ==
    /\ lg.constructed
    /\ Len(lg.appended) < MaxAppends
    /\ lg' = [lg EXCEPT !.logBuffer = appendLogCapped(@, lg.maxLogLines, level, message),
                        !.appended = Append(@, LogEntry(level, message))]
    /\ UNCHANGED <<runtimes, rt, child, provider, call, reactions, microtasks, starts, fp,
                   disk, projectDirIndex, generated, deleted, last, otherVars>>

NextLog ==
    \/ \E n \in LogCaps : LogConstruct(n)
    \/ \E level \in LogLevels, message \in LogLines : LogAppend(level, message)

SpecLog == Init /\ [][NextLog]_vars

\* ============================================================ LocalStorage
\* Every public operation of LocalStorage is one step: the store is used by
\* one caller at a time.  Operators take the directories (dsk) and the index
\* (idx) as the operation has left them so far.
nonStoreVars ==
    <<runtimes, rt, child, provider, call, reactions, microtasks, starts, fp, lg, otherVars>>

pathExists(dsk, d) == d \in DirNames /\ dsk[d].exists

\* readProjectMeta: the parsed meta.json, or null (NoMeta)
readProjectMeta(dsk, d) == IF pathExists(dsk, d) THEN dsk[d].meta ELSE NoMeta

PROJECT_META_VERSION == 2

\* writeProjectMeta(projectDir, project): project always carries the current
\* version and a brand object
writeProjectMeta(dsk, d, project) ==
    [dsk EXCEPT ![d].meta = project, ![d].version = PROJECT_META_VERSION, ![d].brand = TRUE]

\* readProjectMeta: raw.version !== PROJECT_META_VERSION || !('brand' in raw)
needsMigration(dsk, d) == dsk[d].version # PROJECT_META_VERSION \/ ~dsk[d].brand

\* readProjectMeta that returns the upgraded project and leaves the file alone
DiskAfterReadProjectMetaUnwritten(dsk, d) == dsk

\* readProjectMeta: the directories after it; a meta.json that needs
\* migration is rewritten before the project is returned
DiskAfterReadProjectMeta(dsk, d) ==
    IF readProjectMeta(dsk, d) # NoMeta /\ needsMigration(dsk, d)
    THEN writeProjectMeta(dsk, d, readProjectMeta(dsk, d))
    ELSE dsk

\* refreshProjectIndex reads the meta.json of every directory
DiskAfterRefresh(dsk) ==
    [d \in DirNames |-> DiskAfterReadProjectMeta(dsk, d)[d]]

\* getProjectDir: the directories after it (a miss refreshes the index)
DiskAfterGetProjectDir(dsk, idx, projectId) ==
    IF idx[projectId] # NoDir THEN dsk ELSE DiskAfterRefresh(dsk)

\* refreshProjectIndex: clear the index, then enter every directory whose
\* meta.json can be read under the id it records.
refreshProjectIndex(dsk) ==
    [i \in Ids |->
        IF \E d \in DirNames : dsk[d].exists /\ dsk[d].meta.id = i
        THEN CHOOSE d \in DirNames : dsk[d].exists /\ dsk[d].meta.id = i
        ELSE NoDir]

\* getProjectDir: the index as the call leaves it, and the directory returned
IndexAfterGetProjectDir(dsk, idx, projectId) ==
    IF idx[projectId] # NoDir THEN idx ELSE refreshProjectIndex(dsk)

getProjectDir(dsk, idx, projectId) == IndexAfterGetProjectDir(dsk, idx, projectId)[projectId]

\* ensureAccess(path.join(projectDir, sub), {createIfMissing: true}): mkdir -p
ensureSubdir(dsk, d, sub) == [dsk EXCEPT ![d].exists = TRUE, ![d].subdirs = @ \cup {sub}]

ensureProjectStructure(dsk, d) ==
    [dsk EXCEPT ![d].exists = TRUE, ![d].subdirs = RequiredSubdirectories]

\* the loop of getUniqueProjectDir without the test for the project's own
\* directory
RECURSIVE UniqueDirLoopIgnoringOwn(_, _, _, _)
UniqueDirLoopIgnoringOwn(dsk, baseName, attempt, targetDir) ==
    LET candidateName == CandidateName(baseName, attempt)
    IN  IF ~pathExists(dsk, candidateName) THEN candidateName
        ELSE IF attempt >= MaxSuffix THEN NoDir
        ELSE UniqueDirLoopIgnoringOwn(dsk, baseName, attempt + 1, targetDir)

\* the loop of getUniqueProjectDir; NoDir when no candidate up to MaxSuffix
\* is accepted
RECURSIVE UniqueDirLoop(_, _, _, _)
UniqueDirLoop(dsk, baseName, attempt, targetDir) ==
    LET candidateName == CandidateName(baseName, attempt)
    IN  IF ~pathExists(dsk, candidateName) THEN candidateName
        ELSE IF targetDir # NoDir /\ candidateName = targetDir THEN candidateName
        ELSE IF attempt >= MaxSuffix THEN NoDir
        ELSE UniqueDirLoop(dsk, baseName, attempt + 1, targetDir)

getUniqueProjectDir(dsk, idx, baseName, currentProjectId) ==
    UniqueDirLoop(dsk, baseName, 0,
                  IF currentProjectId # NoId THEN getProjectDir(dsk, idx, currentProjectId)
                  ELSE NoDir)

\* ------------------------------------------------------------- projects
\* createProject(project): the directory, the structure, meta.json, the index
\* entry, then ensureDefaultBranch.
CreateProject(name) ==
    LET normalized == normalizeProjectName(name)
        dirPath == getUniqueProjectDir(disk, projectDirIndex, toDirectoryName(normalized), NoId)
        id == generated + 1
        branchId == generated + 2
        withMeta == writeProjectMeta(ensureProjectStructure(disk, dirPath), dirPath,
                                     [id |-> id, name |-> normalized])
        listed == ensureSubdir(withMeta, dirPath, "branches")
        needsDefault == listed[dirPath].branches = {}
    IN  /\ generated + 2 <= MaxIds
        /\ dirPath # NoDir
        /\ disk' = IF needsDefault
                   THEN [listed EXCEPT ![dirPath].branches =
                            {[id |-> branchId, projectId |-> id, isDefault |-> TRUE]}]
                   ELSE listed
        /\ projectDirIndex' = [projectDirIndex EXCEPT ![id] = dirPath]
        /\ generated' = IF needsDefault THEN generated + 2 ELSE generated + 1
        /\ last' = [NoCall EXCEPT !.op = "createProject", !.projectId = id, !.result = "ok",
                                  !.ret = id, !.dir = dirPath]
        /\ UNCHANGED deleted
        /\ UNCHANGED nonStoreVars

\* getProject: whether it returns a project, and the directories after it
GetProjectFound(dsk, idx, projectId) ==
    /\ getProjectDir(dsk, idx, projectId) # NoDir
    /\ readProjectMeta(dsk, getProjectDir(dsk, idx, projectId)) # NoMeta

DiskAfterGetProject(dsk, idx, projectId) ==
    IF GetProjectFound(dsk, idx, projectId)
    THEN ensureProjectStructure(
             DiskAfterReadProjectMeta(DiskAfterGetProjectDir(dsk, idx, projectId),
                                      getProjectDir(dsk, idx, projectId)),
             getProjectDir(dsk, idx, projectId))
    ELSE DiskAfterGetProjectDir(dsk, idx, projectId)

GetProject(projectId) ==
    LET found == GetProjectFound(disk, projectDirIndex, projectId)
        dir == getProjectDir(disk, projectDirIndex, projectId)
    IN  /\ disk' = DiskAfterGetProject(disk, projectDirIndex, projectId)
        /\ projectDirIndex' = IndexAfterGetProjectDir(disk, projectDirIndex, projectId)
        /\ last' = [NoCall EXCEPT !.op = "getProject", !.projectId = projectId,
                                  !.result = IF found THEN "ok" ELSE "null",
                                  !.ret = IF found THEN readProjectMeta(disk, dir).id ELSE NoId,
                                  !.dir = dir,
                                  !.wrote = found /\ needsMigration(disk, dir),
                                  !.version = IF found THEN PROJECT_META_VERSION ELSE 0]
        /\ UNCHANGED <<generated, deleted>>
        /\ UNCHANGED nonStoreVars

\* updateProject after a rename that leaves the index entry as it was
IndexAfterRenameStale(idx, projectId, currentDir, targetDir) == idx

\* updateProject: this.projectDirIndex.set(projectId, targetDir) after the move
IndexAfterRename(idx, projectId, currentDir, targetDir) ==
    IF currentDir # targetDir THEN [idx EXCEPT ![projectId] = targetDir] ELSE idx

\* updateProject: fs.rename(currentDir, targetDir) moves the whole directory
DiskAfterRename(dsk, currentDir, targetDir) ==
    IF currentDir # targetDir
    THEN [dsk EXCEPT ![targetDir] = dsk[currentDir], ![currentDir] = NoDirectory]
    ELSE dsk

\* updateProject(projectId, updates): name is updates.name, <<>> when the
\* update carries no name.
UpdateProject(projectId, name) ==
    LET idx1 == IndexAfterGetProjectDir(disk, projectDirIndex, projectId)
        found == GetProjectFound(disk, projectDirIndex, projectId)
        currentDir == idx1[projectId]
        project == readProjectMeta(disk, currentDir)
        dsk1 == DiskAfterGetProject(disk, projectDirIndex, projectId)
        updatedName == IF name # <<>> THEN normalizeProjectName(name) ELSE project.name
        targetDir == getUniqueProjectDir(dsk1, idx1, toDirectoryName(updatedName), projectId)
        moved == DiskAfterRename(dsk1, currentDir, targetDir)
    IN  /\ found => targetDir # NoDir
        /\ IF found
           THEN /\ disk' = writeProjectMeta(ensureProjectStructure(moved, targetDir), targetDir,
                                            [id |-> project.id, name |-> updatedName])
                /\ projectDirIndex' = IndexAfterRename(idx1, projectId, currentDir, targetDir)
                /\ last' = [NoCall EXCEPT !.op = "updateProject", !.projectId = projectId,
                                          !.result = "ok", !.ret = project.id, !.dir = targetDir]
           ELSE /\ disk' = dsk1
                /\ projectDirIndex' = idx1
                /\ last' = [NoCall EXCEPT !.op = "updateProject", !.projectId = projectId,
                                          !.result = "null"]
        /\ UNCHANGED <<generated, deleted>>
        /\ UNCHANGED nonStoreVars

\* deleteProject that leaves the index entry in place
IndexAfterDeleteKept(idx, projectId) == idx

\* deleteProject: this.projectDirIndex.delete(projectId)
IndexAfterDelete(idx, projectId) == [idx EXCEPT ![projectId] = NoDir]

\* deleteProject: fs.rm(projectDir, {recursive, force}), then the index entry
DeleteProject(projectId) ==
    LET idx1 == IndexAfterGetProjectDir(disk, projectDirIndex, projectId)
        projectDir == idx1[projectId]
    IN  /\ IF projectDir = NoDir
           THEN /\ disk' = disk
                /\ projectDirIndex' = idx1
                /\ deleted' = deleted
                /\ last' = [NoCall EXCEPT !.op = "deleteProject", !.projectId = projectId,
                                          !.result = "false"]
           ELSE /\ disk' = [disk EXCEPT ![projectDir] = NoDirectory]
                /\ projectDirIndex' = IndexAfterDelete(idx1, projectId)
                /\ deleted' = deleted \cup {projectId}
                /\ last' = [NoCall EXCEPT !.op = "deleteProject", !.projectId = projectId,
                                          !.result = "true", !.dir = projectDir]
        /\ UNCHANGED generated
        /\ UNCHANGED nonStoreVars

\* listProjects: every directory with a readable meta.json is entered in the
\* index (which is not cleared) and has its structure ensured.
ListProjects ==
    LET projectDirs == {d \in DirNames : disk[d].exists /\ disk[d].meta # NoMeta}
    IN  /\ disk' = [d \in DirNames |->
                       IF d \in projectDirs
                       THEN ensureProjectStructure(DiskAfterReadProjectMeta(disk, d), d)[d]
                       ELSE disk[d]]
        /\ projectDirIndex' =
               [i \in Ids |-> IF \E d \in projectDirs : disk[d].meta.id = i
                              THEN CHOOSE d \in projectDirs : disk[d].meta.id = i
                              ELSE projectDirIndex[i]]
        /\ last' = [NoCall EXCEPT !.op = "listProjects", !.result = "ok",
                                  !.listed = {disk[d].meta.id : d \in projectDirs}]
        /\ UNCHANGED <<generated, deleted>>
        /\ UNCHANGED nonStoreVars

\* ------------------------------------------------------------- branches
\* writeFileSafely(getBranchPath(projectDir, branch.id), ...)
writeBranchFile(dsk, d, branch) ==
    [ensureSubdir(dsk, d, "branches") EXCEPT
        ![d].branches = {b \in @ : b.id # branch.id} \cup {branch}]

CreateBranch(projectId, isDefault) ==
    LET idx1 == IndexAfterGetProjectDir(disk, projectDirIndex, projectId)
        projectDir == idx1[projectId]
        id == generated + 1
    IN  /\ generated + 1 <= MaxIds
        /\ projectDirIndex' = idx1
        /\ IF projectDir = NoDir
           THEN /\ disk' = disk
                /\ generated' = generated
                /\ last' = [NoCall EXCEPT !.op = "createBranch", !.projectId = projectId,
                                          !.result = "throw"]
           ELSE /\ disk' = writeBranchFile(disk, projectDir,
                               [id |-> id, projectId |-> projectId, isDefault |-> isDefault])
                /\ generated' = id
                /\ last' = [NoCall EXCEPT !.op = "createBranch", !.projectId = projectId,
                                          !.result = "ok", !.ret = id, !.dir = projectDir]
        /\ UNCHANGED deleted
        /\ UNCHANGED nonStoreVars

\* The branch files listBranches returns: every .json file that JSON.parse
\* accepts, cast to LocalBranch with no schema check
ParsedBranchIds(dsk, d) ==
    {b.id : b \in dsk[d].branches}
        \cup {m.id : m \in {x \in dsk[d].malformed : x.kind = "branches"}}

ListBranches(projectId) ==
    LET idx1 == IndexAfterGetProjectDir(disk, projectDirIndex, projectId)
        projectDir == idx1[projectId]
    IN  /\ projectDirIndex' = idx1
        /\ disk' = IF projectDir = NoDir THEN disk ELSE ensureSubdir(disk, projectDir, "branches")
        /\ last' = [NoCall EXCEPT !.op = "listBranches", !.projectId = projectId,
                                  !.result = "ok", !.dir = projectDir,
                                  !.listed = IF projectDir = NoDir THEN {}
                                             ELSE ParsedBranchIds(disk, projectDir)]
        /\ UNCHANGED <<generated, deleted>>
        /\ UNCHANGED nonStoreVars

\* updateBranch(projectId, branchId, {isDefault}): read, merge, write back
UpdateBranch(projectId, branchId, isDefault) ==
    LET idx1 == IndexAfterGetProjectDir(disk, projectDirIndex, projectId)
        projectDir == idx1[projectId]
        stored == IF projectDir = NoDir THEN {}
                  ELSE {b \in disk[projectDir].branches : b.id = branchId}
    IN  /\ projectDirIndex' = idx1
        /\ IF stored = {}
           THEN /\ disk' = disk
                /\ last' = [NoCall EXCEPT !.op = "updateBranch", !.projectId = projectId,
                                          !.id = branchId, !.result = "null", !.dir = projectDir]
           ELSE /\ disk' = writeBranchFile(disk, projectDir,
                               [(CHOOSE b \in stored : TRUE) EXCEPT !.isDefault = isDefault])
                /\ last' = [NoCall EXCEPT !.op = "updateBranch", !.projectId = projectId,
                                          !.id = branchId, !.result = "ok", !.ret = branchId,
                                          !.dir = projectDir]
        /\ UNCHANGED <<generated, deleted>>
        /\ UNCHANGED nonStoreVars

\* deleteBranch: fs.rm(branchPath, {force: true})
DeleteBranch(projectId, branchId) ==
    LET idx1 == IndexAfterGetProjectDir(disk, projectDirIndex, projectId)
        projectDir == idx1[projectId]
    IN  /\ projectDirIndex' = idx1
        /\ IF projectDir = NoDir
           THEN /\ disk' = disk
                /\ last' = [NoCall EXCEPT !.op = "deleteBranch", !.projectId = projectId,
                                          !.id = branchId, !.result = "false"]
           ELSE /\ disk' = [disk EXCEPT ![projectDir].branches = {b \in @ : b.id # branchId}]
                /\ last' = [NoCall EXCEPT !.op = "deleteBranch", !.projectId = projectId,
                                          !.id = branchId, !.result = "true", !.dir = projectDir]
        /\ UNCHANGED <<generated, deleted>>
        /\ UNCHANGED nonStoreVars

\* ------------------------------------------------------------- canvases
\* the parsed content of canvases/<canvasId>.json, NoCanvas when it cannot be
\* read
CanvasFile(dsk, d, canvasId) ==
    IF pathExists(dsk, d) /\ \E cv \in dsk[d].canvases : cv.id = canvasId
    THEN CHOOSE cv \in dsk[d].canvases : cv.id = canvasId
    ELSE NoCanvas

writeCanvasFile(dsk, d, canvas) ==
    [ensureSubdir(dsk, d, "canvases") EXCEPT
        ![d].canvases = {cv \in @ : cv.id # canvas.id} \cup {canvas}]

\* the ids of S in ascending order
RECURSIVE SortedIds(_)
SortedIds(S) ==
    IF S = {} THEN <<>>
    ELSE LET m == CHOOSE x \in S : \A y \in S : x <= y
         IN  <<m>> \o SortedIds(S \ {m})

Reverse(sq) == [i \in 1..Len(sq) |-> sq[Len(sq) + 1 - i]]

\* the legacy frame files maybeMigrateLegacyFrames takes for canvas: those
\* that name it and those that name no canvas
LegacyOf(dsk, d, canvas) ==
    {f \in dsk[d].legacy : f.canvasId = NoId \/ f.canvasId = canvas.id}

MigratedFrames(dsk, d, canvas) ==
    LET files == LegacyOf(dsk, d, canvas)
        order == SortedIds({f.id : f \in files})
    IN  [i \in 1..Len(order) |->
            LET f == CHOOSE g \in files : g.id = order[i]
            IN  [id |-> f.id, projectId |-> canvas.projectId, canvasId |-> canvas.id,
                 branchId |-> f.branchId]]

Migrates(dsk, d, canvas) ==
    /\ canvas.frames = <<>>
    /\ dsk[d].framesDir
    /\ LegacyOf(dsk, d, canvas) # {}

\* maybeMigrateLegacyFrames: the canvas it returns and the directories after
\* it; a legacy file whose removal fails (locked) stays where it is.
maybeMigrateLegacyFrames(dsk, d, canvas) ==
    IF Migrates(dsk, d, canvas)
    THEN [canvas EXCEPT !.frames = MigratedFrames(dsk, d, canvas)]
    ELSE canvas

DiskAfterMigrate(dsk, d, canvas) ==
    IF Migrates(dsk, d, canvas)
    THEN writeCanvasFile(
             [dsk EXCEPT ![d].legacy = {f \in @ : f \notin LegacyOf(dsk, d, canvas) \/ f.locked}],
             d, maybeMigrateLegacyFrames(dsk, d, canvas))
    ELSE dsk

\* getCanvas that answers a missing canvas file with an empty canvas
getCanvasOrEmpty(dsk, d, canvasId) ==
    IF d = NoDir \/ CanvasFile(dsk, d, canvasId) = NoCanvas
    THEN [NoCanvas EXCEPT !.id = canvasId]
    ELSE maybeMigrateLegacyFrames(dsk, d, CanvasFile(dsk, d, canvasId))

\* getCanvas on the directory getProjectDir returned
getCanvas(dsk, d, canvasId) ==
    IF d = NoDir \/ CanvasFile(dsk, d, canvasId) = NoCanvas THEN NoCanvas
    ELSE maybeMigrateLegacyFrames(dsk, d, CanvasFile(dsk, d, canvasId))

DiskAfterGetCanvas(dsk, d, canvasId) ==
    IF d = NoDir \/ CanvasFile(dsk, d, canvasId) = NoCanvas THEN dsk
    ELSE DiskAfterMigrate(dsk, d, CanvasFile(dsk, d, canvasId))

\* the order in which readdir lists the canvas files
CanvasOrder(dsk, d, reversed) ==
    LET ascending == SortedIds({cv.id : cv \in dsk[d].canvases})
    IN  IF reversed THEN Reverse(ascending) ELSE ascending

RECURSIVE GetCanvasEach(_, _, _)
GetCanvasEach(dsk, d, canvasIds) ==
    IF canvasIds = <<>> THEN dsk
    ELSE GetCanvasEach(DiskAfterGetCanvas(dsk, d, Head(canvasIds)), d, Tail(canvasIds))

\* listCanvases: ensureProjectStructure, then getCanvas of every canvas file;
\* the canvases it returns are the canvas documents it leaves behind
DiskAfterListCanvases(dsk, d, reversed) ==
    LET structured == ensureProjectStructure(dsk, d)
    IN  GetCanvasEach(structured, d, CanvasOrder(structured, d, reversed))

CreateCanvas(projectId) ==
    LET idx1 == IndexAfterGetProjectDir(disk, projectDirIndex, projectId)
        projectDir == idx1[projectId]
        id == generated + 1
    IN  /\ generated + 1 <= MaxIds
        /\ projectDirIndex' = idx1
        /\ IF projectDir = NoDir
           THEN /\ disk' = disk
                /\ generated' = generated
                /\ last' = [NoCall EXCEPT !.op = "createCanvas", !.projectId = projectId,
                                          !.result = "throw"]
           ELSE /\ disk' = writeCanvasFile(ensureProjectStructure(disk, projectDir), projectDir,
                               [id |-> id, projectId |-> projectId, frames |-> <<>>])
                /\ generated' = id
                /\ last' = [NoCall EXCEPT !.op = "createCanvas", !.projectId = projectId,
                                          !.result = "ok", !.ret = id, !.dir = projectDir]
        /\ UNCHANGED deleted
        /\ UNCHANGED nonStoreVars

GetCanvas(projectId, canvasId) ==
    LET idx1 == IndexAfterGetProjectDir(disk, projectDirIndex, projectId)
        projectDir == idx1[projectId]
        canvas == getCanvas(disk, projectDir, canvasId)
    IN  /\ projectDirIndex' = idx1
        /\ disk' = DiskAfterGetCanvas(disk, projectDir, canvasId)
        /\ last' = [NoCall EXCEPT !.op = "getCanvas", !.projectId = projectId,
                                  !.canvasId = canvasId,
                                  !.result = IF canvas = NoCanvas THEN "null" ELSE "ok",
                                  !.ret = canvas.id, !.dir = projectDir]
        /\ UNCHANGED <<generated, deleted>>
        /\ UNCHANGED nonStoreVars

ListCanvases(projectId, reversed) ==
    LET idx1 == IndexAfterGetProjectDir(disk, projectDirIndex, projectId)
        projectDir == idx1[projectId]
    IN  /\ projectDirIndex' = idx1
        /\ disk' = IF projectDir = NoDir THEN disk
                   ELSE DiskAfterListCanvases(disk, projectDir, reversed)
        /\ last' = [NoCall EXCEPT !.op = "listCanvases", !.projectId = projectId,
                                  !.result = "ok", !.dir = projectDir,
                                  !.listed = IF projectDir = NoDir THEN {}
                                             ELSE {cv.id : cv \in disk[projectDir].canvases}]
        /\ UNCHANGED <<generated, deleted>>
        /\ UNCHANGED nonStoreVars

\* --------------------------------------------------------------- frames
HasFrame(canvas, frameId) == \E i \in 1..Len(canvas.frames) : canvas.frames[i].id = frameId

\* canvas.frames.findIndex((frame) => frame.id === frameId)
FrameIndex(canvas, frameId) ==
    CHOOSE i \in 1..Len(canvas.frames) :
        /\ canvas.frames[i].id = frameId
        /\ \A j \in 1..(i - 1) : canvas.frames[j].id # frameId

\* the first of the canvases, in the order given, that embeds frame frameId
RECURSIVE FirstCanvasWith(_, _, _, _)
FirstCanvasWith(dsk, d, canvasIds, frameId) ==
    IF canvasIds = <<>> THEN NoCanvas
    ELSE IF HasFrame(CanvasFile(dsk, d, Head(canvasIds)), frameId)
         THEN CanvasFile(dsk, d, Head(canvasIds))
         ELSE FirstCanvasWith(dsk, d, Tail(canvasIds), frameId)

\* the frames of a canvas whatever branch they are on
FramesInAnyBranch(canvas, branchId) ==
    {canvas.frames[i] : i \in 1..Len(canvas.frames)}

\* the frames of a canvas that pass the branch filter
FramesIn(canvas, branchId) ==
    {canvas.frames[i] : i \in {j \in 1..Len(canvas.frames) :
                                  branchId = NoId \/ canvas.frames[j].branchId = branchId}}

\* createFrame(frame): requireProjectDir, getCanvas, append, writeCanvasFile
CreateFrame(projectId, canvasId, branchId) ==
    LET idx1 == IndexAfterGetProjectDir(disk, projectDirIndex, projectId)
        projectDir == idx1[projectId]
        canvas == getCanvas(disk, projectDir, canvasId)
        id == generated + 1
        fullFrame == [id |-> id, projectId |-> projectId, canvasId |-> canvasId,
                      branchId |-> branchId]
    IN  /\ generated + 1 <= MaxIds
        /\ projectDirIndex' = idx1
        /\ IF projectDir = NoDir \/ canvas = NoCanvas
           THEN /\ disk' = disk
                /\ generated' = generated
                /\ last' = [NoCall EXCEPT !.op = "createFrame", !.projectId = projectId,
                                          !.canvasId = canvasId, !.branchId = branchId,
                                          !.result = "throw", !.dir = projectDir]
           ELSE /\ disk' = writeCanvasFile(DiskAfterGetCanvas(disk, projectDir, canvasId),
                               projectDir,
                               [canvas EXCEPT !.frames = Append(canvas.frames, fullFrame)])
                /\ generated' = id
                /\ last' = [NoCall EXCEPT !.op = "createFrame", !.projectId = projectId,
                                          !.canvasId = canvasId, !.branchId = branchId,
                                          !.result = "ok", !.ret = id, !.dir = projectDir]
        /\ UNCHANGED deleted
        /\ UNCHANGED nonStoreVars

\* listFrames on the directory getProjectDir returned; NoId stands for a
\* filter that is not given.  With a canvas filter it reads that canvas with
\* getCanvas, without one it takes the frames of every canvas listCanvases
\* returns.  The frames come sorted by updatedAt, which the model leaves
\* out: the result is the set of frames.
DiskAfterListFrames(dsk, d, canvasId, reversed) ==
    IF canvasId # NoId THEN DiskAfterGetCanvas(dsk, d, canvasId)
    ELSE DiskAfterListCanvases(dsk, d, reversed)

listFrames(dsk, d, canvasId, branchId, reversed) ==
    IF canvasId # NoId THEN FramesIn(getCanvas(dsk, d, canvasId), branchId)
    ELSE UNION {FramesIn(cv, branchId) : cv \in DiskAfterListCanvases(dsk, d, reversed)[d].canvases}

ListFrames(projectId, canvasId, branchId, reversed) ==
    \E idx1 \in {IndexAfterGetProjectDir(disk, projectDirIndex, projectId)} :
    LET projectDir == idx1[projectId]
    IN  /\ projectDirIndex' = idx1
        /\ IF projectDir = NoDir
           THEN /\ disk' = disk
                /\ last' = [NoCall EXCEPT !.op = "listFrames", !.projectId = projectId,
                                          !.canvasId = canvasId, !.branchId = branchId,
                                          !.result = "ok"]
           ELSE /\ disk' = DiskAfterListFrames(disk, projectDir, canvasId, reversed)
                /\ last' = [NoCall EXCEPT !.op = "listFrames", !.projectId = projectId,
                                          !.canvasId = canvasId, !.branchId = branchId,
                                          !.result = "ok", !.dir = projectDir,
                                          !.frames = listFrames(disk, projectDir, canvasId,
                                                                branchId, reversed)]
        /\ UNCHANGED <<generated, deleted>>
        /\ UNCHANGED nonStoreVars

\* updateFrame(projectId, frameId, {canvasId, branchId}); NoId stands for a
\* field the update does not carry.  The canvases are searched in the order
\* listCanvases returned them.
UpdateFrame(projectId, frameId, canvasId, branchId, reversed) ==
    \E idx1 \in {IndexAfterGetProjectDir(disk, projectDirIndex, projectId)} :
    \E listed \in {IF idx1[projectId] = NoDir THEN disk
                   ELSE DiskAfterListCanvases(disk, idx1[projectId], reversed)} :
    \E canvas \in {IF idx1[projectId] = NoDir THEN NoCanvas
                   ELSE FirstCanvasWith(listed, idx1[projectId],
                                        CanvasOrder(listed, idx1[projectId], reversed), frameId)} :
    LET projectDir == idx1[projectId]
        index == FrameIndex(canvas, frameId)
        existing == canvas.frames[index]
        updated == [existing EXCEPT !.canvasId = IF canvasId # NoId THEN canvasId ELSE @,
                                    !.branchId = IF branchId # NoId THEN branchId ELSE @]
    IN  /\ projectDirIndex' = idx1
        /\ IF canvas = NoCanvas
           THEN /\ disk' = listed
                /\ last' = [NoCall EXCEPT !.op = "updateFrame", !.projectId = projectId,
                                          !.id = frameId, !.result = "null", !.dir = projectDir]
           ELSE /\ disk' = writeCanvasFile(listed, projectDir,
                               [canvas EXCEPT !.frames = [canvas.frames EXCEPT ![index] = updated]])
                /\ last' = [NoCall EXCEPT !.op = "updateFrame", !.projectId = projectId,
                                          !.id = frameId, !.canvasId = canvasId,
                                          !.branchId = branchId, !.result = "ok",
                                          !.ret = frameId, !.dir = projectDir]
        /\ UNCHANGED <<generated, deleted>>
        /\ UNCHANGED nonStoreVars

\* deleteFrame(projectId, frameId)
DeleteFrame(projectId, frameId, reversed) ==
    \E idx1 \in {IndexAfterGetProjectDir(disk, projectDirIndex, projectId)} :
    \E listed \in {IF idx1[projectId] = NoDir THEN disk
                   ELSE DiskAfterListCanvases(disk, idx1[projectId], reversed)} :
    \E canvas \in {IF idx1[projectId] = NoDir THEN NoCanvas
                   ELSE FirstCanvasWith(listed, idx1[projectId],
                                        CanvasOrder(listed, idx1[projectId], reversed), frameId)} :
    LET projectDir == idx1[projectId]
        index == FrameIndex(canvas, frameId)
    IN  /\ projectDirIndex' = idx1
        /\ IF canvas = NoCanvas
           THEN /\ disk' = listed
                /\ last' = [NoCall EXCEPT !.op = "deleteFrame", !.projectId = projectId,
                                          !.id = frameId, !.result = "false", !.dir = projectDir]
           ELSE /\ disk' = writeCanvasFile(listed, projectDir,
                               [canvas EXCEPT !.frames =
                                   SubSeq(canvas.frames, 1, index - 1)
                                   \o SubSeq(canvas.frames, index + 1, Len(canvas.frames))])
                /\ last' = [NoCall EXCEPT !.op = "deleteFrame", !.projectId = projectId,
                                          !.id = frameId, !.canvasId = canvas.id,
                                          !.result = "true", !.dir = projectDir]
        /\ UNCHANGED <<generated, deleted>>
        /\ UNCHANGED nonStoreVars

\* -------------------------------------- conversations, files and assets
\* A conversation document as stored: version NoVersion is a file written
\* before the version field existed; messages are kept in stored order, each
\* with its id and createdAt (a time in 1..MaxTime)
ConversationFile(dsk, d, conversationId) ==
    IF /\ pathExists(dsk, d)
       /\ \E cn \in dsk[d].conversations : cn.id = conversationId
    THEN CHOOSE cn \in dsk[d].conversations : cn.id = conversationId
    ELSE NoConversation

\* A file in the given subdirectory that parses as JSON and fails its schema
Malformed(dsk, d, kind, id) ==
    /\ pathExists(dsk, d)
    /\ [kind |-> kind, id |-> id] \in dsk[d].malformed

\* How readConversationFile ends: the schema error of a malformed file is
\* rethrown as a generic access error, ENOENT is null
ReadConversationResult(dsk, d, conversationId) ==
    IF Malformed(dsk, d, "conversations", conversationId) THEN "throw"
    ELSE IF ConversationFile(dsk, d, conversationId) = NoConversation THEN "null"
    ELSE "ok"

\* The document readConversationFile returns: the stored one, upgraded to
\* the current version
readConversationFile(dsk, d, conversationId) ==
    IF ReadConversationResult(dsk, d, conversationId) = "ok"
    THEN [ConversationFile(dsk, d, conversationId) EXCEPT
             !.version = CONVERSATION_FILE_VERSION]
    ELSE NoConversation

\* readConversationFile writes the file back exactly when it upgraded it
ConversationRewritten(dsk, d, conversationId) ==
    /\ ReadConversationResult(dsk, d, conversationId) = "ok"
    /\ ConversationFile(dsk, d, conversationId).version # CONVERSATION_FILE_VERSION

writeConversationFile(dsk, d, conversation) ==
    [ensureSubdir(dsk, d, "conversations") EXCEPT
        ![d].conversations = {cn \in @ : cn.id # conversation.id} \cup {conversation}]

DiskAfterReadConversationUnwritten(dsk, d, conversationId) == dsk

DiskAfterReadConversation(dsk, d, conversationId) ==
    IF ConversationRewritten(dsk, d, conversationId)
    THEN writeConversationFile(dsk, d, readConversationFile(dsk, d, conversationId))
    ELSE dsk

CreateConversation(projectId) ==
    LET idx1 == IndexAfterGetProjectDir(disk, projectDirIndex, projectId)
        projectDir == idx1[projectId]
        id == generated + 1
    IN  /\ generated + 1 <= MaxIds
        /\ projectDirIndex' = idx1
        /\ IF projectDir = NoDir
           THEN /\ disk' = disk
                /\ generated' = generated
                /\ last' = [NoCall EXCEPT !.op = "createConversation", !.projectId = projectId,
                                          !.result = "throw"]
           ELSE /\ disk' = writeConversationFile(ensureProjectStructure(disk, projectDir),
                               projectDir,
                               [id |-> id, projectId |-> projectId,
                                version |-> CONVERSATION_FILE_VERSION, messages |-> <<>>])
                /\ generated' = id
                /\ last' = [NoCall EXCEPT !.op = "createConversation", !.projectId = projectId,
                                          !.result = "ok", !.ret = id, !.dir = projectDir,
                                          !.wrote = TRUE]
        /\ UNCHANGED deleted
        /\ UNCHANGED nonStoreVars

\* getConversation: null without a project directory or a file, else the
\* document readConversationFile returns
GetConversation(projectId, conversationId) ==
    LET idx1 == IndexAfterGetProjectDir(disk, projectDirIndex, projectId)
        projectDir == idx1[projectId]
        result == IF projectDir = NoDir THEN "null"
                  ELSE ReadConversationResult(disk, projectDir, conversationId)
    IN  /\ projectDirIndex' = idx1
        /\ disk' = IF projectDir = NoDir THEN disk
                   ELSE DiskAfterReadConversation(disk, projectDir, conversationId)
        /\ last' = [NoCall EXCEPT !.op = "getConversation", !.projectId = projectId,
                                  !.id = conversationId,
                                  !.result = result,
                                  !.ret = IF result = "ok" THEN conversationId ELSE NoId,
                                  !.dir = projectDir,
                                  !.wrote = /\ projectDir # NoDir
                                            /\ disk' # disk,
                                  !.version = IF result = "ok"
                                              THEN readConversationFile(disk, projectDir,
                                                       conversationId).version
                                              ELSE NoVersion]
        /\ UNCHANGED <<generated, deleted>>
        /\ UNCHANGED nonStoreVars

\* The .json entries of conversations/ in the order readdir gives them
ConversationOrder(dsk, d, reversed) ==
    LET ids == {cn.id : cn \in dsk[d].conversations}
                  \cup {m.id : m \in {x \in dsk[d].malformed : x.kind = "conversations"}}
    IN  IF reversed THEN Reverse(SortedIds(ids)) ELSE SortedIds(ids)

\* The loop of listConversations: each file is read in turn (and upgraded);
\* the first read that throws ends the loop
RECURSIVE ReadConversationEach(_, _, _)
ReadConversationEach(dsk, d, order) ==
    IF order = <<>> THEN [disk |-> dsk, listed |-> {}, result |-> "ok"]
    ELSE IF ReadConversationResult(dsk, d, Head(order)) = "throw"
         THEN [disk |-> dsk, listed |-> {}, result |-> "throw"]
         ELSE LET rest == ReadConversationEach(
                              DiskAfterReadConversation(dsk, d, Head(order)), d, Tail(order))
              IN  IF rest.result = "throw" THEN rest
                  ELSE [rest EXCEPT !.listed = @ \cup {Head(order)}]

\* listConversations: [] without a project directory; ensureProjectStructure;
\* every file read with readConversationFile, whose error leaves the loop
\* and is rethrown
ListConversations(projectId, reversed) ==
    LET idx1 == IndexAfterGetProjectDir(disk, projectDirIndex, projectId)
        projectDir == idx1[projectId]
    IN  /\ projectDirIndex' = idx1
        /\ IF projectDir = NoDir
           THEN /\ disk' = disk
                /\ last' = [NoCall EXCEPT !.op = "listConversations",
                                          !.projectId = projectId, !.result = "ok"]
           ELSE \E each \in {ReadConversationEach(ensureProjectStructure(disk, projectDir),
                                 projectDir,
                                 ConversationOrder(disk, projectDir, reversed))} :
                    /\ disk' = each.disk
                    /\ last' = [NoCall EXCEPT !.op = "listConversations",
                                              !.projectId = projectId,
                                              !.result = each.result,
                                              !.dir = projectDir,
                                              !.listed = each.listed,
                                              !.wrote = each.disk # ensureProjectStructure(
                                                                        disk, projectDir)]
        /\ UNCHANGED <<generated, deleted>>
        /\ UNCHANGED nonStoreVars

\* listFiles / listAssets: getProjectDir, then ensureProjectStructure, then
\* the directory is read
ListDocuments(op, projectId) ==
    LET idx1 == IndexAfterGetProjectDir(disk, projectDirIndex, projectId)
        projectDir == idx1[projectId]
    IN  /\ projectDirIndex' = idx1
        /\ disk' = IF projectDir = NoDir THEN disk ELSE ensureProjectStructure(disk, projectDir)
        /\ last' = [NoCall EXCEPT !.op = op, !.projectId = projectId, !.result = "ok",
                                  !.dir = projectDir]
        /\ UNCHANGED <<generated, deleted>>
        /\ UNCHANGED nonStoreVars

ListFiles(projectId) == ListDocuments("listFiles", projectId)
ListAssets(projectId) == ListDocuments("listAssets", projectId)

\* ------------------------------------------- what the store finds on disk
\* A frame file of the layout before frames were embedded in canvases, in
\* the frames/ directory of a project none of whose canvases embeds a frame:
\* it names a canvas or none, and its removal may fail (locked).
LegacyFrameFile(d, canvasId, branchId, locked) ==
    /\ generated + 1 <= MaxIds
    /\ disk[d].exists /\ disk[d].meta # NoMeta
    /\ \A cv \in disk[d].canvases : cv.frames = <<>>
    /\ canvasId = NoId \/ \E cv \in disk[d].canvases : cv.id = canvasId
    /\ \E b \in disk[d].branches : b.id = branchId
    /\ disk' = [disk EXCEPT ![d].framesDir = TRUE,
                            ![d].legacy = @ \cup {[id |-> generated + 1, canvasId |-> canvasId,
                                                   branchId |-> branchId, locked |-> locked]}]
    /\ generated' = generated + 1
    /\ last' = [NoCall EXCEPT !.op = "legacyFrameFile", !.dir = d]
    /\ UNCHANGED <<projectDirIndex, deleted>>
    /\ UNCHANGED nonStoreVars

\* A conversation file written before the version field existed, found in
\* conversations/ under a file name of its own id.
LegacyConversationFile(d) ==
    /\ generated + 1 <= MaxIds
    /\ disk[d].exists /\ disk[d].meta # NoMeta
    /\ "conversations" \in disk[d].subdirs
    /\ disk' = [disk EXCEPT ![d].conversations =
                    @ \cup {[id |-> generated + 1, projectId |-> disk[d].meta.id,
                             version |-> NoVersion, messages |-> <<>>]}]
    /\ generated' = generated + 1
    /\ last' = [NoCall EXCEPT !.op = "legacyConversationFile", !.dir = d,
                              !.ret = generated + 1]
    /\ UNCHANGED <<projectDirIndex, deleted>>
    /\ UNCHANGED nonStoreVars

\* A document file that parses as JSON and fails its schema, found in a
\* document subdirectory under a file name no other document has.
MalformedFile(d, sub) ==
    /\ generated + 1 <= MaxIds
    /\ disk[d].exists /\ disk[d].meta # NoMeta
    /\ sub \in disk[d].subdirs
    /\ disk' = [disk EXCEPT ![d].malformed = @ \cup {[kind |-> sub, id |-> generated + 1]}]
    /\ generated' = generated + 1
    /\ last' = [NoCall EXCEPT !.op = "malformedFile", !.dir = d, !.ret = generated + 1]
    /\ UNCHANGED <<projectDirIndex, deleted>>
    /\ UNCHANGED nonStoreVars

\* A directory under projectsDir whose meta.json parses as JSON and fails
\* projectMetaSchema: readProjectMeta returns null for it.
MalformedProjectMeta(d) ==
    /\ ~disk[d].exists
    /\ disk' = [disk EXCEPT ![d] = [NoDirectory EXCEPT !.exists = TRUE,
                                        !.malformed = {[kind |-> "meta", id |-> NoId]}]]
    /\ last' = [NoCall EXCEPT !.op = "malformedProjectMeta", !.dir = d]
    /\ UNCHANGED <<projectDirIndex, generated, deleted>>
    /\ UNCHANGED nonStoreVars

\* A required subdirectory of a project is removed behind the store's back,
\* with the documents in it.
RemoveSubdirectory(d, sub) ==
    /\ disk[d].exists /\ disk[d].meta # NoMeta
    /\ sub \in disk[d].subdirs
    /\ Cardinality(RequiredSubdirectories \ disk[d].subdirs) < MaxMissing
    /\ disk' = [disk EXCEPT ![d].subdirs = @ \ {sub},
                            ![d].branches = IF sub = "branches" THEN {} ELSE @,
                            ![d].canvases = IF sub = "canvases" THEN {} ELSE @,
                            ![d].conversations = IF sub = "conversations" THEN {} ELSE @,
                            ![d].malformed = {m \in @ : m.kind # sub}]
    /\ last' = [NoCall EXCEPT !.op = "removeSubdirectory", !.dir = d]
    /\ UNCHANGED <<projectDirIndex, generated, deleted>>
    /\ UNCHANGED nonStoreVars

\* The ids a caller can name: those handed out so far and one never handed out.
KnownIds == 1..(IF generated < MaxIds THEN generated + 1 ELSE MaxIds)

\* The ids of the projects, branches, canvases and frames now on disk.
ProjectDirs == {d \in DirNames : disk[d].exists /\ disk[d].meta # NoMeta}
ProjectIdsOnDisk == {disk[d].meta.id : d \in ProjectDirs}
BranchIdsOnDisk == UNION {{b.id : b \in disk[d].branches} : d \in ProjectDirs}
CanvasIdsOnDisk == UNION {{cv.id : cv \in disk[d].canvases} : d \in ProjectDirs}
FrameIdsOnDisk ==
    UNION {UNION {{cv.frames[i].id : i \in 1..Len(cv.frames)} : cv \in disk[d].canvases}
           : d \in ProjectDirs}

\* The project operations, called one after another.
NextProjects ==
    \/ \E name \in ProjectNames : CreateProject(name)
    \/ \E p \in Ids : GetProject(p)
    \/ \E p \in Ids, name \in ProjectNames \cup {<<>>} : UpdateProject(p, name)
    \/ \E p \in Ids : DeleteProject(p)
    \/ ListProjects

SpecProjects == Init /\ [][NextProjects]_vars

\* The branch operations on the projects created.
NextBranches ==
    \/ \E name \in {Foo} : CreateProject(name)
    \/ \E p \in KnownIds, isDefault \in BOOLEAN : CreateBranch(p, isDefault)
    \/ \E p \in KnownIds : ListBranches(p)
    \/ \E p \in KnownIds, b \in KnownIds, isDefault \in BOOLEAN : UpdateBranch(p, b, isDefault)
    \/ \E p \in KnownIds, b \in KnownIds : DeleteBranch(p, b)

SpecBranches == Init /\ [][NextBranches]_vars

\* The canvas and frame operations on one project, with frame files of the
\* earlier layout turning up in its frames/ directory.
NextFrames ==
    \/ \E name \in {Foo} : ProjectIdsOnDisk = {} /\ CreateProject(name)
    \/ \E p \in ProjectIdsOnDisk : CreateCanvas(p)
    \/ \E p \in ProjectIdsOnDisk, c \in CanvasIdsOnDisk : GetCanvas(p, c)
    \/ \E p \in ProjectIdsOnDisk, reversed \in BOOLEAN : ListCanvases(p, reversed)
    \/ \E p \in ProjectIdsOnDisk, c \in CanvasIdsOnDisk, b \in BranchIdsOnDisk :
          CreateFrame(p, c, b)
    \/ \E p \in ProjectIdsOnDisk, c \in CanvasIdsOnDisk \cup {NoId},
          b \in BranchIdsOnDisk \cup {NoId}, reversed \in BOOLEAN : ListFrames(p, c, b, reversed)
    \/ \E p \in ProjectIdsOnDisk, f \in FrameIdsOnDisk, c \in CanvasIdsOnDisk \cup {NoId},
          b \in BranchIdsOnDisk \cup {NoId}, reversed \in BOOLEAN :
          UpdateFrame(p, f, c, b, reversed)
    \/ \E p \in ProjectIdsOnDisk, f \in FrameIdsOnDisk, reversed \in BOOLEAN :
          DeleteFrame(p, f, reversed)
    \/ \E d \in ProjectDirs, c \in CanvasIdsOnDisk \cup {NoId}, b \in BranchIdsOnDisk,
          locked \in BOOLEAN : LegacyFrameFile(d, c, b, locked)

SpecFrames == Init /\ [][NextFrames]_vars

\* The canvas and frame operations on one project of the layout that
\* createFrame writes: every frame embedded in its canvas, no frames/
\* directory.
NextListing ==
    \/ \E name \in {Foo} : ProjectIdsOnDisk = {} /\ CreateProject(name)
    \/ \E p \in ProjectIdsOnDisk, isDefault \in {FALSE} : CreateBranch(p, isDefault)
    \/ \E p \in ProjectIdsOnDisk : CreateCanvas(p)
    \/ \E p \in ProjectIdsOnDisk, reversed \in BOOLEAN : ListCanvases(p, reversed)
    \/ \E p \in ProjectIdsOnDisk, c \in CanvasIdsOnDisk, b \in BranchIdsOnDisk :
          CreateFrame(p, c, b)
    \/ \E p \in ProjectIdsOnDisk, c \in CanvasIdsOnDisk \cup {NoId},
          b \in BranchIdsOnDisk \cup {NoId}, reversed \in BOOLEAN : ListFrames(p, c, b, reversed)
    \/ \E p \in ProjectIdsOnDisk, f \in FrameIdsOnDisk, c \in CanvasIdsOnDisk \cup {NoId},
          b \in BranchIdsOnDisk \cup {NoId}, reversed \in BOOLEAN :
          UpdateFrame(p, f, c, b, reversed)
    \/ \E p \in ProjectIdsOnDisk, f \in FrameIdsOnDisk, reversed \in BOOLEAN :
          DeleteFrame(p, f, reversed)

SpecListing == Init /\ [][NextListing]_vars

\* An id that was never handed out.
FreshIds == {generated + 1} \cap Ids

\* Reads of projects, canvases and conversations, by ids that exist and ids
\* that do not, and frames created under canvas and branch ids of both
\* kinds; one project at a time.
NextLookups ==
    \/ \E name \in {Foo} : ProjectIdsOnDisk = {} /\ CreateProject(name)
    \/ \E p \in ProjectIdsOnDisk : DeleteProject(p)
    \/ \E p \in ProjectIdsOnDisk : CreateCanvas(p)
    \/ \E p \in ProjectIdsOnDisk : CreateConversation(p)
    \/ \E p \in KnownIds : GetProject(p)
    \/ \E p \in ProjectIdsOnDisk \cup deleted \cup FreshIds, c \in KnownIds : GetCanvas(p, c)
    \/ \E p \in ProjectIdsOnDisk \cup deleted \cup FreshIds, cn \in KnownIds :
          GetConversation(p, cn)
    \/ \E p \in ProjectIdsOnDisk \cup FreshIds, c \in KnownIds, b \in 1..generated :
          CreateFrame(p, c, b)

SpecLookups == Init /\ [][NextLookups]_vars

\* The read and list operations on one project whose subdirectories are
\* removed behind the store's back.
NextRepair ==
    \/ \E name \in {Foo} : ProjectIdsOnDisk = {} /\ CreateProject(name)
    \/ \E d \in ProjectDirs, sub \in RequiredSubdirectories : RemoveSubdirectory(d, sub)
    \/ \E p \in ProjectIdsOnDisk : CreateCanvas(p)
    \/ \E p \in ProjectIdsOnDisk : CreateConversation(p)
    \/ \E p \in ProjectIdsOnDisk : GetProject(p)
    \/ ListProjects
    \/ \E p \in ProjectIdsOnDisk : ListBranches(p)
    \/ \E p \in ProjectIdsOnDisk, c \in KnownIds : GetCanvas(p, c)
    \/ \E p \in ProjectIdsOnDisk, reversed \in BOOLEAN : ListCanvases(p, reversed)
    \/ \E p \in ProjectIdsOnDisk, c \in CanvasIdsOnDisk \cup {NoId}, b \in {NoId},
          reversed \in BOOLEAN : ListFrames(p, c, b, reversed)
    \/ \E p \in ProjectIdsOnDisk, cn \in KnownIds : GetConversation(p, cn)
    \/ \E p \in ProjectIdsOnDisk : ListConversations(p, FALSE)
    \/ \E p \in ProjectIdsOnDisk : ListFiles(p)
    \/ \E p \in ProjectIdsOnDisk : ListAssets(p)

SpecRepair == Init /\ [][NextRepair]_vars

\* Conversations of one project: created now, left by an earlier version
\* of the store or failing the schema, read one at a time and listed
NextConversations ==
    \/ \E name \in {Foo} : ProjectIdsOnDisk = {} /\ CreateProject(name)
    \/ \E p \in ProjectIdsOnDisk : CreateConversation(p)
    \/ \E d \in ProjectDirs : LegacyConversationFile(d)
    \/ \E d \in ProjectDirs : MalformedFile(d, "conversations")
    \/ \E p \in ProjectIdsOnDisk, cid \in KnownIds : GetConversation(p, cid)
    \/ \E p \in ProjectIdsOnDisk, reversed \in BOOLEAN : ListConversations(p, reversed)

SpecConversations == Init /\ [][NextConversations]_vars

\* The list operations over documents some of which parse as JSON and fail
\* their schema: one project with its default branch, a canvas and
\* conversations, and
\* a second directory whose meta.json is such a file
NextMalformed ==
    \/ \E name \in {Foo} : ProjectIdsOnDisk = {} /\ CreateProject(name)
    \/ \E p \in ProjectIdsOnDisk :
           CanvasIdsOnDisk = {} /\ CreateCanvas(p)
    \/ \E p \in ProjectIdsOnDisk : CreateConversation(p)
    \/ \E d \in ProjectDirs, sub \in {"branches", "canvases", "conversations"} :
           MalformedFile(d, sub)
    \/ MalformedProjectMeta(Bar)
    \/ ListProjects
    \/ \E p \in ProjectIdsOnDisk : ListBranches(p)
    \/ \E p \in ProjectIdsOnDisk : ListCanvases(p, FALSE)
    \/ \E p \in ProjectIdsOnDisk : ListConversations(p, FALSE)

SpecMalformed == Init /\ [][NextMalformed]_vars

\* ============================================================ ensureAccess
\* What the operating system answers to the calls ensureAccess makes on a
\* path: fs.access, fs.mkdir, fs.access again after the mkdir, and fs.stat
\* ("directory" or "file" when it succeeds).  EIO stands for every error
\* code other than ENOENT, EACCES and EPERM.
Errnos == {"ENOENT", "EACCES", "EPERM", "EIO"}
Outcomes == {"ok"} \cup Errnos
StatOutcomes == {"directory", "file"} \cup Errnos
OsAnswers == [access : Outcomes, mkdir : Outcomes, access2 : Outcomes, stat : StatOutcomes]
AccessOptions == [intent : {"read", "write"}, createIfMissing : BOOLEAN,
                  kind : {"directory", "file"}]

\* An error object: a Node errno exception carries its code, an Error made
\* from a message carries none and has the message's shape as its text
OsError(code) == [code |-> code, message |-> code]
ThrownError(message) == [code |-> "none", message |-> message.shape]

getErrorCode(error) == error.code
isPermissionError(error) == getErrorCode(error) \in {"EACCES", "EPERM"}

\* The messages, by shape; detail is what the text is built from beside the
\* path: the intent, the kind, or the text of the error wrapped
Accessible(targetPath) == [shape |-> "ok", path |-> targetPath, detail |-> "none"]
formatPermissionMessage(targetPath, intent) ==
    [shape |-> "permission-denied", path |-> targetPath, detail |-> intent]
formatMissingPathMessage(targetPath, kind) ==
    [shape |-> "missing-path", path |-> targetPath, detail |-> kind]
formatNotDirectoryMessage(targetPath) ==
    [shape |-> "wrong-kind", path |-> targetPath, detail |-> "file"]
formatGenericAccessMessage(targetPath, error) ==
    [shape |-> "generic-access", path |-> targetPath, detail |-> error.message]

\* The catch block around fs.stat, which also catches the Error thrown in
\* the try block for a path that is not a directory
StatCatch(targetPath, options, error) ==
    IF getErrorCode(error) = "ENOENT"
    THEN formatMissingPathMessage(targetPath, options.kind)
    ELSE IF isPermissionError(error)
         THEN formatPermissionMessage(targetPath, options.intent)
         ELSE formatGenericAccessMessage(targetPath, error)

\* ensureAccess(targetPath, options): Accessible when it returns, else the
\* message of the Error it throws
ensureAccess(targetPath, options, os) ==
    IF os.access # "ok"
    THEN IF os.access = "ENOENT"
         THEN IF options.createIfMissing /\ options.kind = "directory"
              THEN LET creationError == IF os.mkdir # "ok" THEN os.mkdir ELSE os.access2
                   IN  IF creationError = "ok" THEN Accessible(targetPath)
                       ELSE IF isPermissionError(OsError(creationError))
                            THEN formatPermissionMessage(targetPath, options.intent)
                            ELSE formatGenericAccessMessage(targetPath,
                                                            OsError(creationError))
              ELSE formatMissingPathMessage(targetPath, options.kind)
         ELSE IF isPermissionError(OsError(os.access))
              THEN formatPermissionMessage(targetPath, options.intent)
              ELSE formatGenericAccessMessage(targetPath, OsError(os.access))
    ELSE IF options.kind = "directory"
         THEN IF os.stat = "directory" THEN Accessible(targetPath)
              ELSE IF os.stat = "file"
                   THEN StatCatch(targetPath, options,
                                  ThrownError(formatNotDirectoryMessage(targetPath)))
                   ELSE StatCatch(targetPath, options, OsError(os.stat))
         ELSE Accessible(targetPath)

\* One call of ensureAccess on a path of the store, under every answer of
\* the operating system
AccessPaths == {"projects", "projects/Foo/branches"}

EnsureAccess(targetPath, options, os) ==
    /\ last.op = "none"
    /\ last' = [op |-> "ensureAccess", path |-> targetPath, options |-> options, os |-> os,
                result |-> ensureAccess(targetPath, options, os)]
    /\ UNCHANGED <<disk, projectDirIndex, generated, deleted>>
    /\ UNCHANGED nonStoreVars

NextAccess ==
    \E targetPath \in AccessPaths, options \in AccessOptions, os \in OsAnswers :
        EnsureAccess(targetPath, options, os)

SpecAccess == Init /\ [][NextAccess]_vars

\* ------------------------------------------- the constructor and ensureReady
\* The projectsDir the store is constructed on
ProjectsRoot == "projects"

\* What the operating system answers during initialize(): the answers to
\* ensureAccess and that of the readdir in refreshProjectIndex
InitializeAnswers == [access : Outcomes, mkdir : Outcomes, access2 : Outcomes,
                      stat : StatOutcomes, readdir : Outcomes]

Rejection(message) == [state |-> "rejected", message |-> message]

initializeUnchecked(os) == Resolved

\* initialize(): ensureAccess(projectsDir, {write, createIfMissing,
\* directory}), then refreshProjectIndex(); this.ready is its promise
initialize(os) ==
    LET access == ensureAccess(ProjectsRoot,
                               [intent |-> "write", createIfMissing |-> TRUE,
                                kind |-> "directory"],
                               [access |-> os.access, mkdir |-> os.mkdir,
                                access2 |-> os.access2, stat |-> os.stat])
    IN  IF access.shape # "ok" THEN Rejection(access)
        ELSE IF os.readdir = "ok" THEN Resolved
        ELSE IF isPermissionError(OsError(os.readdir))
             THEN Rejection(formatPermissionMessage(ProjectsRoot, "read"))
             ELSE Rejection(formatGenericAccessMessage(ProjectsRoot, OsError(os.readdir)))

\* A store constructed under every answer of the operating system
InitConstructed ==
    /\ InitRuntime /\ fp = FpIdle /\ lg = LgIdle
    /\ InitDocuments
    /\ watch = NoWatch
    /\ tasks = NoTasks
    /\ file = NoFile
    /\ hints = NoHints
    /\ ready \in {initialize(os) : os \in InitializeAnswers}

\* ensureReady(): await this.ready, which throws what initialize() threw
ensureReady == ready.state = "resolved"

\* A public operation whose ensureReady() throws
Rejected(op) ==
    /\ ~ensureReady
    /\ last' = [NoCall EXCEPT !.op = op, !.result = "throw", !.message = ready.message]
    /\ UNCHANGED <<disk, projectDirIndex, generated, deleted>>
    /\ UNCHANGED nonStoreVars

PublicOperations ==
    {"createProject", "getProject", "listProjects", "deleteProject", "createCanvas",
     "listCanvases", "createConversation", "getConversation", "listConversations"}

\* The public operations on a store whose initialization succeeded or
\* failed; one project at a time
NextConstructed ==
    \/ \E op \in PublicOperations : Rejected(op)
    \/ \E name \in {Foo} : ensureReady /\ ProjectIdsOnDisk = {} /\ CreateProject(name)
    \/ \E p \in KnownIds : ensureReady /\ GetProject(p)
    \/ ensureReady /\ ListProjects
    \/ \E p \in ProjectIdsOnDisk : ensureReady /\ DeleteProject(p)
    \/ \E p \in ProjectIdsOnDisk : ensureReady /\ CreateCanvas(p)
    \/ \E p \in ProjectIdsOnDisk : ensureReady /\ ListCanvases(p, FALSE)
    \/ \E p \in ProjectIdsOnDisk : ensureReady /\ CreateConversation(p)
    \/ \E p \in ProjectIdsOnDisk, cid \in KnownIds : ensureReady /\ GetConversation(p, cid)
    \/ \E p \in ProjectIdsOnDisk : ensureReady /\ ListConversations(p, FALSE)

SpecConstructed == InitConstructed /\ [][NextConstructed]_vars

\* ------------------------------------------------- the registry in use
\* Providers are constructed, start and stop the runtime, stop the project
\* (which removes the registry entry) and are constructed again, while
\* children exit on their own; LocalProvider.destroy() has an empty body
\* and is no step.
NextRegistry ==
    \/ \E c \in Callers : Construct(c)
    \/ \E c \in Callers : starts < MaxRegistryStarts /\ CallEnsureStarted(c)
    \/ \E c \in Callers : CallStop(c)
    \/ \E c \in Callers : CallStopProject(c)
    \/ \E c \in Callers : MkdirDone(c, TRUE)
    \/ \E c \in Callers : SpawnDone(c, {}, "ok")
    \/ \E k \in ChildIds : ChildExit(k)
    \/ \E k \in ChildIds : ForceKillTimer(k)
    \/ Microtask

SpecRegistry == Init /\ [][NextRegistry]_vars

\* ========================================================= LocalFileWatcher
\* A path on the platform whose separator is sep: the project root, and a
\* file or directory below it named by its segments
Separators == {"/", "\\"}
ProjectPath(sep) == <<sep, "p">>
WatchedSegments == {<<>>, <<"a">>, <<"a", "b">>}

RECURSIVE Join(_, _)
Join(segments, sep) ==
    IF segments = <<>> THEN <<>>
    ELSE IF Len(segments) = 1 THEN <<Head(segments)>>
    ELSE <<Head(segments), sep>> \o Join(Tail(segments), sep)

FilePath(sep, segments) ==
    IF segments = <<>> THEN ProjectPath(sep)
    ELSE ProjectPath(sep) \o <<sep>> \o Join(segments, sep)

\* path.relative(root, targetPath) of a path at or below root
PathRelative(root, targetPath) ==
    IF targetPath = root THEN <<>> ELSE SubSeq(targetPath, Len(root) + 2, Len(targetPath))

\* relative.replace(/\\/g, '/')
ReplaceBackslashes(str) == [i \in 1..Len(str) |-> IF str[i] = "\\" THEN "/" ELSE str[i]]

toSandboxRelativePathUnreplaced(root, targetPath) ==
    IF PathRelative(root, targetPath) = <<>> THEN <<".">>
    ELSE PathRelative(root, targetPath)

toSandboxRelativePath(root, targetPath) ==
    IF PathRelative(root, targetPath) = <<>> THEN <<".">>
    ELSE ReplaceBackslashes(PathRelative(root, targetPath))

\* The events chokidar emits as 'all', and the WatchEvent type the listener
\* gives each
ChokidarEvents == {"add", "addDir", "change", "unlink", "unlinkDir"}
WatchEventType(event) ==
    IF event \in {"add", "addDir"} THEN "add"
    ELSE IF event = "change" THEN "change"
    ELSE "remove"

\* The watcher object: watcher is this.watcher ("none" before start, "open",
\* "closing" while stop() awaits close(), "closed" once stop() has set it to
\* null), callback is this.callback (NoCallback: null), registered counts
\* the callbacks registered so far, events the events the FSWatcher emitted,
\* event the last of them and delivered the calls made to callbacks, in
\* order
NoCallback == 0
NoEvent == [event |-> "none", filePath |-> <<>>]
NewWatcher(sep) ==
    [watcher |-> "none", sep |-> sep, callback |-> NoCallback, registered |-> 0,
     events |-> 0, event |-> NoEvent, delivered |-> <<>>]

\* LocalProvider.watchFiles: new LocalFileWatcher(projectPath), start(input)
WatchFiles(sep) ==
    /\ watch = NoWatch
    /\ watch' = [NewWatcher(sep) EXCEPT !.watcher = "open"]
    /\ UNCHANGED <<ready, tasks, file, hints>>
    /\ UNCHANGED <<runtimes, rt, child, provider, call, reactions, microtasks, starts, fp, lg,
                   disk, projectDirIndex, generated, deleted, last>>

WatcherStarted == watch # NoWatch

registerEventCallback ==
    /\ WatcherStarted
    /\ watch.registered < MaxCallbacks
    /\ watch' = [watch EXCEPT !.callback = watch.registered + 1,
                              !.registered = watch.registered + 1]
    /\ UNCHANGED <<ready, tasks, file, hints>>
    /\ UNCHANGED <<runtimes, rt, child, provider, call, reactions, microtasks, starts, fp, lg,
                   disk, projectDirIndex, generated, deleted, last>>

\* The 'all' listener runs for an event of the FSWatcher; a closed FSWatcher
\* emits nothing
OnAll(event, segments) ==
    /\ WatcherStarted
    /\ watch.watcher \in {"open", "closing"}
    /\ watch.events < MaxEvents
    /\ LET filePath == FilePath(watch.sep, segments)
           relative == toSandboxRelativePath(ProjectPath(watch.sep), filePath)
       IN  watch' = [watch EXCEPT
                        !.events = @ + 1,
                        !.event = [event |-> event, filePath |-> filePath],
                        !.delivered =
                            IF watch.callback = NoCallback THEN @
                            ELSE Append(@, [callback |-> watch.callback,
                                            type |-> WatchEventType(event),
                                            paths |-> <<relative>>])]
    /\ UNCHANGED <<ready, tasks, file, hints>>
    /\ UNCHANGED <<runtimes, rt, child, provider, call, reactions, microtasks, starts, fp, lg,
                   disk, projectDirIndex, generated, deleted, last>>

\* stop() up to its await of watcher.close()
StopWatcher ==
    /\ WatcherStarted
    /\ watch.watcher = "open"
    /\ watch' = [watch EXCEPT !.watcher = "closing"]
    /\ UNCHANGED <<ready, tasks, file, hints>>
    /\ UNCHANGED <<runtimes, rt, child, provider, call, reactions, microtasks, starts, fp, lg,
                   disk, projectDirIndex, generated, deleted, last>>

\* close() has resolved: stop() sets watcher and callback to null
StopWatcherDone ==
    /\ WatcherStarted
    /\ watch.watcher = "closing"
    /\ watch' = [watch EXCEPT !.watcher = "closed", !.callback = NoCallback]
    /\ UNCHANGED <<ready, tasks, file, hints>>
    /\ UNCHANGED <<runtimes, rt, child, provider, call, reactions, microtasks, starts, fp, lg,
                   disk, projectDirIndex, generated, deleted, last>>

NextWatcher ==
    \/ \E sep \in Separators : WatchFiles(sep)
    \/ registerEventCallback
    \/ \E event \in ChokidarEvents, segments \in WatchedSegments : OnAll(event, segments)
    \/ StopWatcher
    \/ StopWatcherDone

SpecWatcher == Init /\ [][NextWatcher]_vars

\* ------------------------------------------------ conversation messages
\* A stored message: its id and its createdAt, an ISO time (1..MaxTime)
MessageIds == 1..MaxMessages
Times == 1..MaxTime
StoredMessages == [id : MessageIds, createdAt : Times]

\* The message lists a caller can pass: no id twice
MessageLists ==
    {ms \in UNION {[1..n -> StoredMessages] : n \in 0..MaxMessages} :
        \A i, j \in 1..Len(ms) : i # j => ms[i].id # ms[j].id}

\* listConversationMessages: [] without a project directory or a file, else
\* conversation.messages as stored
listConversationMessages(dsk, d, conversationId) ==
    IF d = NoDir \/ ReadConversationResult(dsk, d, conversationId) # "ok" THEN <<>>
    ELSE readConversationFile(dsk, d, conversationId).messages

ListConversationMessages(projectId, conversationId) ==
    LET idx1 == IndexAfterGetProjectDir(disk, projectDirIndex, projectId)
        projectDir == idx1[projectId]
        result == IF projectDir = NoDir THEN "ok"
                  ELSE IF ReadConversationResult(disk, projectDir, conversationId) = "throw"
                       THEN "throw" ELSE "ok"
    IN  /\ projectDirIndex' = idx1
        /\ disk' = IF projectDir = NoDir THEN disk
                   ELSE DiskAfterReadConversation(disk, projectDir, conversationId)
        /\ last' = [NoCall EXCEPT !.op = "listConversationMessages",
                                  !.projectId = projectId, !.id = conversationId,
                                  !.result = result, !.dir = projectDir,
                                  !.messages = listConversationMessages(disk, projectDir,
                                                                        conversationId)]
        /\ UNCHANGED <<generated, deleted>>
        /\ UNCHANGED nonStoreVars

\* The write both replaceConversationMessages and updateConversationMessage
\* end with, after the checks both begin with
WriteMessages(op, projectId, conversationId, found, messages) ==
    LET idx1 == IndexAfterGetProjectDir(disk, projectDirIndex, projectId)
        projectDir == idx1[projectId]
        readable == /\ projectDir # NoDir
                    /\ ReadConversationResult(disk, projectDir, conversationId) = "ok"
    IN  /\ projectDirIndex' = idx1
        /\ disk' = IF readable /\ found
                   THEN writeConversationFile(disk, projectDir,
                            [readConversationFile(disk, projectDir, conversationId)
                                 EXCEPT !.messages = messages])
                   ELSE IF readable
                        THEN DiskAfterReadConversation(disk, projectDir, conversationId)
                        ELSE disk
        /\ last' = [NoCall EXCEPT !.op = op, !.projectId = projectId,
                                  !.id = conversationId,
                                  !.result = IF readable /\ found THEN "ok" ELSE "throw",
                                  !.dir = projectDir,
                                  !.wrote = readable /\ found]
        /\ UNCHANGED <<generated, deleted>>
        /\ UNCHANGED nonStoreVars

\* replaceConversationMessages: throws without the project or the
\* conversation, else writes the conversation with the messages given
ReplaceConversationMessages(projectId, conversationId, messages) ==
    WriteMessages("replaceConversationMessages", projectId, conversationId, TRUE, messages)

\* updateConversationMessage(..., messageId, {createdAt}): the first message
\* of that id gets the createdAt given, in place; throws when there is none
UpdateConversationMessage(projectId, conversationId, messageId, createdAt) ==
    \E stored \in {listConversationMessages(disk,
                       IndexAfterGetProjectDir(disk, projectDirIndex, projectId)[projectId],
                       conversationId)} :
        LET matches == {i \in 1..Len(stored) : stored[i].id = messageId}
            index == IF matches = {} THEN 0
                     ELSE CHOOSE i \in matches : \A j \in matches : i <= j
        IN  WriteMessages("updateConversationMessage", projectId, conversationId,
                          index # 0,
                          [i \in 1..Len(stored) |->
                              IF i = index THEN [stored[i] EXCEPT !.createdAt = createdAt]
                              ELSE stored[i]])

\* Array.prototype.sort with the comparator a.createdAt - b.createdAt: a
\* stable sort, here by insertion from the left
InsertByCreatedAt(sorted, message) ==
    LET before == {i \in 1..Len(sorted) : sorted[i].createdAt <= message.createdAt}
        n == Cardinality(before)
    IN  SubSeq(sorted, 1, n) \o <<message>> \o SubSeq(sorted, n + 1, Len(sorted))

RECURSIVE SortByCreatedAt(_)
SortByCreatedAt(messages) ==
    IF messages = <<>> THEN <<>>
    ELSE InsertByCreatedAt(SortByCreatedAt(SubSeq(messages, 1, Len(messages) - 1)),
                           messages[Len(messages)])

getAllUnsorted(messages) == messages

\* messageRouter.getAll: what it makes of the messages the store lists
getAll(messages) == SortByCreatedAt(messages)

GetAll(projectId, conversationId) ==
    LET idx1 == IndexAfterGetProjectDir(disk, projectDirIndex, projectId)
        projectDir == idx1[projectId]
        result == IF projectDir = NoDir THEN "ok"
                  ELSE IF ReadConversationResult(disk, projectDir, conversationId) = "throw"
                       THEN "throw" ELSE "ok"
    IN  /\ projectDirIndex' = idx1
        /\ disk' = IF projectDir = NoDir THEN disk
                   ELSE DiskAfterReadConversation(disk, projectDir, conversationId)
        /\ last' = [NoCall EXCEPT !.op = "getAll",
                                  !.projectId = projectId, !.id = conversationId,
                                  !.result = result, !.dir = projectDir,
                                  !.messages = getAll(listConversationMessages(
                                                   disk, projectDir, conversationId))]
        /\ UNCHANGED <<generated, deleted>>
        /\ UNCHANGED nonStoreVars

ConversationIdsOnDisk ==
    UNION {{cn.id : cn \in disk[d].conversations} : d \in ProjectDirs}

\* The messages of one conversation of one project replaced, updated and
\* listed
NextMessages ==
    \/ \E name \in {Foo} : ProjectIdsOnDisk = {} /\ CreateProject(name)
    \/ \E p \in ProjectIdsOnDisk : ConversationIdsOnDisk = {} /\ CreateConversation(p)
    \/ \E p \in ProjectIdsOnDisk, cid \in ConversationIdsOnDisk, ms \in MessageLists :
           ReplaceConversationMessages(p, cid, ms)
    \/ \E p \in ProjectIdsOnDisk, cid \in ConversationIdsOnDisk, mid \in MessageIds,
          t \in Times :
           UpdateConversationMessage(p, cid, mid, t)
    \/ \E p \in ProjectIdsOnDisk, cid \in ConversationIdsOnDisk :
           ListConversationMessages(p, cid)
    \/ \E p \in ProjectIdsOnDisk, cid \in ConversationIdsOnDisk : GetAll(p, cid)

SpecMessages == Init /\ [][NextMessages]_vars

\* ============================== the directory index under interleaving
\* getProjectDir and findFrame step by step: each step runs from one await
\* to the next.  A task is one call in flight: pc is the await it is
\* suspended at ("readdir": fs.readdir in refreshProjectIndex, "meta":
\* readProjectMeta of one of the entries still to read, "done": returned),
\* entries the directories readdir listed and the loop has not read yet, and
\* result what getProjectDir returned.
ClearedIndex == [i \in Ids |-> NoDir]

NewTask(op, projectId) ==
    [op |-> op, projectId |-> projectId, pc |-> "readdir", entries |-> {},
     result |-> NoDir]

TasksIdle == \A t \in 1..Len(tasks) : tasks[t].pc = "done"

\* A project is created while no call is in flight
CreateProjectAlone(name) ==
    /\ TasksIdle
    /\ CreateProject(name)

\* getProjectDir(projectId) up to its first await: the entry of the index if
\* there is one, else refreshProjectIndex() begins by clearing the index
StartGetProjectDir(projectId) ==
    /\ Len(tasks) < NumTasks
    /\ IF projectDirIndex[projectId] # NoDir
       THEN /\ tasks' = Append(tasks, [NewTask("getProjectDir", projectId) EXCEPT
                                          !.pc = "done",
                                          !.result = projectDirIndex[projectId]])
            /\ projectDirIndex' = projectDirIndex
       ELSE /\ tasks' = Append(tasks, NewTask("getProjectDir", projectId))
            /\ projectDirIndex' = ClearedIndex
    /\ UNCHANGED <<disk, generated, deleted, last, ready, watch, file, hints>>
    /\ UNCHANGED <<runtimes, rt, child, provider, call, reactions, microtasks, starts, fp, lg>>

\* findFrame(frameId) up to its first await: refreshProjectIndex() clears
\* the index
StartFindFrame ==
    /\ Len(tasks) < NumTasks
    /\ tasks' = Append(tasks, NewTask("findFrame", NoId))
    /\ projectDirIndex' = ClearedIndex
    /\ UNCHANGED <<disk, generated, deleted, last, ready, watch, file, hints>>
    /\ UNCHANGED <<runtimes, rt, child, provider, call, reactions, microtasks, starts, fp, lg>>

\* What the caller of refreshProjectIndex() does when it returns:
\* getProjectDir reads the index, findFrame goes on to list the canvases
AfterRefresh(task, idx) ==
    [task EXCEPT !.pc = "done",
                 !.result = IF task.op = "getProjectDir" THEN idx[task.projectId] ELSE NoDir]

\* fs.readdir(projectsDir) has answered: the loop starts on its entries
ReaddirDone(t) ==
    /\ tasks[t].pc = "readdir"
    /\ LET entries == {d \in DirNames : disk[d].exists}
       IN  tasks' = [tasks EXCEPT ![t] =
                        IF entries = {} THEN AfterRefresh(@, projectDirIndex)
                        ELSE [@ EXCEPT !.pc = "meta", !.entries = entries]]
    /\ UNCHANGED <<disk, projectDirIndex, generated, deleted, last, ready, watch, file, hints>>
    /\ UNCHANGED <<runtimes, rt, child, provider, call, reactions, microtasks, starts, fp, lg>>

\* readProjectMeta(projectDir) has answered for the entry the loop is at:
\* the project is entered in the index, and the loop goes to its next
\* entry or refreshProjectIndex() returns
MetaDone(t, projectDir) ==
    /\ tasks[t].pc = "meta"
    /\ projectDir \in tasks[t].entries
    /\ LET project == readProjectMeta(disk, projectDir)
           idx1 == IF project # NoMeta
                   THEN [projectDirIndex EXCEPT ![project.id] = projectDir]
                   ELSE projectDirIndex
           rest == tasks[t].entries \ {projectDir}
       IN  /\ projectDirIndex' = idx1
           /\ tasks' = [tasks EXCEPT ![t] =
                           IF rest = {} THEN AfterRefresh(@, idx1)
                           ELSE [@ EXCEPT !.entries = rest]]
    /\ UNCHANGED <<disk, generated, deleted, last, ready, watch, file, hints>>
    /\ UNCHANGED <<runtimes, rt, child, provider, call, reactions, microtasks, starts, fp, lg>>

\* Two projects are created, then lookups and rescans run interleaved
NextIndex ==
    \/ \E name \in {Foo, Bar} : CreateProjectAlone(name)
    \/ \E p \in ProjectIdsOnDisk : StartGetProjectDir(p)
    \/ StartFindFrame
    \/ \E t \in 1..Len(tasks) : ReaddirDone(t)
    \/ \E t \in 1..Len(tasks), d \in DirNames : MetaDone(t, d)

SpecIndex == Init /\ [][NextIndex]_vars

\* --------------------------------------------- the supervisor, scheduled
\* The 'exit' event of a child that was sent a signal: the operating system
\* ends a signalled process and reports it.
SignalledExit(k) ==
    /\ child[k].signalled # "none"
    /\ ChildExit(k)

\* The event loop runs every queued continuation, fires every armed timer and
\* delivers the completion of every I/O request (mkdir, the port probe and
\* spawn); callers are free to call or not.
SupervisorFairness ==
    /\ WF_vars(Microtask)
    /\ \A k \in ChildIds : WF_vars(SignalledExit(k))
    /\ \A k \in ChildIds : WF_vars(ForceKillTimer(k))
    /\ \A c \in Callers : WF_vars(\E ok \in BOOLEAN : MkdirDone(c, ok))
    /\ \A c \in Callers :
          WF_vars(\E occ \in OccupiedChoices, o \in SpawnOutcomes : SpawnDone(c, occ, o))

SpecSupervisorFair == InitSupervisor /\ [][NextSupervisor]_vars /\ SupervisorFairness

\* ------------------------------------------------ project meta migration
\* The version fields a meta.json that passes projectMetaSchema can carry:
\* none, an older version, the current one, a later one.
MetaVersions == {NoVersion, PROJECT_META_VERSION - 1, PROJECT_META_VERSION,
                 PROJECT_META_VERSION + 1}

\* The meta.json of project directory d is one written by another version of
\* the application: its version field is version, it has a brand field or not.
LegacyProjectMeta(d, version, brand) ==
    /\ disk[d].exists /\ disk[d].meta # NoMeta
    /\ ~needsMigration(disk, d)
    /\ version # PROJECT_META_VERSION \/ ~brand
    /\ disk' = [disk EXCEPT ![d].version = version, ![d].brand = brand]
    /\ last' = [NoCall EXCEPT !.op = "legacyProjectMeta", !.dir = d]
    /\ UNCHANGED <<projectDirIndex, generated, deleted>>
    /\ UNCHANGED nonStoreVars

NextMeta ==
    \/ \E name \in {Foo} : Cardinality(ProjectIdsOnDisk) < 2 /\ CreateProject(name)
    \/ \E d \in DirNames, version \in MetaVersions, brand \in BOOLEAN :
          LegacyProjectMeta(d, version, brand)
    \/ \E p \in KnownIds : GetProject(p)
    \/ \E p \in ProjectIdsOnDisk, name \in {<<>>, Bar} : UpdateProject(p, name)
    \/ ListProjects

SpecMeta == Init /\ [][NextMeta]_vars

\* ------------------------------- concurrent updates of one canvas document
\* A canvas document as two updates of it see it: the ids of the frames it
\* embeds and the scale of its state.  JSON.stringify writes it as a sequence
\* of pieces: the state, one piece per frame, the closing bracket.
Scales == 1..MaxScale

Serialize(doc) ==
    <<[piece |-> "state", value |-> doc.scale]>>
    \o [i \in 1..Len(doc.frames) |-> [piece |-> "frame", value |-> doc.frames[i]]]
    \o <<[piece |-> "end", value |-> 0]>>

\* JSON.parse and canvasFileSchema.parse accept exactly what Serialize writes
WellFormed(content) ==
    /\ Len(content) >= 2
    /\ content[1].piece = "state"
    /\ content[Len(content)].piece = "end"
    /\ \A i \in 2..(Len(content) - 1) : content[i].piece = "frame"

NoDoc == [frames |-> <<>>, scale |-> 0]

Parse(content) ==
    IF WellFormed(content)
    THEN [frames |-> [i \in 1..(Len(content) - 2) |-> content[i + 1].value],
          scale |-> content[1].value]
    ELSE NoDoc

\* fs.writeFile writes at offset 0 of its own descriptor: what another
\* descriptor wrote beyond the end of the new content stays
Overlay(old, new) ==
    IF Len(old) > Len(new) THEN new \o SubSeq(old, Len(new) + 1, Len(old)) ELSE new

NewUpdate(op, scale) == [op |-> op, scale |-> scale, pc |-> "read", doc |-> NoDoc]

UpdatesIdle == \A t \in 1..Len(tasks) : tasks[t].pc \in {"done", "null", "throw"}

\* createCanvas has written the canvas file: no frames, the default scale
WriteNewCanvas ==
    /\ file = NoFile
    /\ file' = [content |-> Serialize([frames |-> <<>>, scale |-> 1]), writer |-> 0]
    /\ UNCHANGED <<ready, watch, tasks, hints>>
    /\ UNCHANGED <<runtimes, rt, child, provider, call, reactions, microtasks, starts, fp, lg,
                   disk, projectDirIndex, generated, deleted, last>>

\* createFrame(frame) up to the readFile of getCanvas
StartCreateFrame ==
    /\ file # NoFile
    /\ Len(tasks) < MaxUpdates
    /\ tasks' = Append(tasks, NewUpdate("createFrame", 0))
    /\ UNCHANGED <<ready, watch, file, hints>>
    /\ UNCHANGED <<runtimes, rt, child, provider, call, reactions, microtasks, starts, fp, lg,
                   disk, projectDirIndex, generated, deleted, last>>

\* updateCanvasState(projectId, canvasId, {scale}) up to the readFile of getCanvas
StartUpdateCanvasState(scale) ==
    /\ file # NoFile
    /\ Len(tasks) < MaxUpdates
    /\ tasks' = Append(tasks, NewUpdate("updateCanvasState", scale))
    /\ UNCHANGED <<ready, watch, file, hints>>
    /\ UNCHANGED <<runtimes, rt, child, provider, call, reactions, microtasks, starts, fp, lg,
                   disk, projectDirIndex, generated, deleted, last>>

\* getCanvas has answered: null makes createFrame throw and updateCanvasState
\* return null; else the updated canvas is built (createFrame takes the next
\* id) and writeCanvasFile begins
ReadDone(t) ==
    /\ tasks[t].pc = "read"
    /\ LET canvas == Parse(file.content)
           isFrame == tasks[t].op = "createFrame"
           updatedCanvas == IF isFrame
                            THEN [canvas EXCEPT !.frames = Append(@, generated + 1)]
                            ELSE [canvas EXCEPT !.scale = tasks[t].scale]
       IN  IF canvas = NoDoc
           THEN /\ tasks' = [tasks EXCEPT ![t].pc = IF isFrame THEN "throw" ELSE "null"]
                /\ generated' = generated
           ELSE /\ tasks' = [tasks EXCEPT ![t].pc = "open", ![t].doc = updatedCanvas]
                /\ generated' = IF isFrame THEN generated + 1 ELSE generated
    /\ UNCHANGED <<ready, watch, file, hints>>
    /\ UNCHANGED <<runtimes, rt, child, provider, call, reactions, microtasks, starts, fp, lg,
                   disk, projectDirIndex, deleted, last>>

\* fs.writeFile has opened the file with flag 'w': the file is truncated
OpenDone(t) ==
    /\ tasks[t].pc = "open"
    /\ tasks' = [tasks EXCEPT ![t].pc = "write"]
    /\ file' = [file EXCEPT !.content = <<>>]
    /\ UNCHANGED <<ready, watch, hints>>
    /\ UNCHANGED <<runtimes, rt, child, provider, call, reactions, microtasks, starts, fp, lg,
                   disk, projectDirIndex, generated, deleted, last>>

\* fs.writeFile has written the document through its descriptor and closed it
WriteDone(t) ==
    /\ tasks[t].pc = "write"
    /\ tasks' = [tasks EXCEPT ![t].pc = "done"]
    /\ file' = [content |-> Overlay(file.content, Serialize(tasks[t].doc)), writer |-> t]
    /\ UNCHANGED <<ready, watch, hints>>
    /\ UNCHANGED <<runtimes, rt, child, provider, call, reactions, microtasks, starts, fp, lg,
                   disk, projectDirIndex, generated, deleted, last>>

NextUpdates ==
    \/ WriteNewCanvas
    \/ StartCreateFrame
    \/ \E scale \in Scales : StartUpdateCanvasState(scale)
    \/ \E t \in 1..Len(tasks) : ReadDone(t)
    \/ \E t \in 1..Len(tasks) : OpenDone(t)
    \/ \E t \in 1..Len(tasks) : WriteDone(t)

SpecUpdates == Init /\ [][NextUpdates]_vars

\* ------------------------------------------------ the large-asset advisory
\* maybeRecommendAssetSymlink(assetDir), await by await.  Each assets
\* directory holds one file; the answers of fs.readdir and fs.stat are the
\* operating system's.
AssetDirs == {Foo, Bar}

ReaddirAnswers == {"entries", "EACCES", "EPERM", "ENOENT", "EIO"}
StatAnswers == {"large", "small", "EACCES", "EPERM", "ENOENT"}

NewScan(assetDir) == [op |-> "ensureProjectStructure", dir |-> assetDir, pc |-> "readdir"]

\* this.largeAssetHintedProjects.has(resolvedAssetDir)
AlreadyHinted(assetDir) == assetDir \in hints.hinted

\* An operation has ensured the subdirectories of a project and enters
\* maybeRecommendAssetSymlink: it returns at once for a hinted directory,
\* else it calls fs.readdir
StartScan(assetDir) ==
    /\ Len(tasks) < MaxScans
    /\ tasks' = Append(tasks, IF AlreadyHinted(assetDir)
                              THEN [NewScan(assetDir) EXCEPT !.pc = "done"]
                              ELSE NewScan(assetDir))
    /\ UNCHANGED <<ready, watch, file, hints>>
    /\ UNCHANGED <<runtimes, rt, child, provider, call, reactions, microtasks, starts, fp, lg,
                   disk, projectDirIndex, generated, deleted, last>>

\* fs.readdir has answered: a permission error is thrown on to the operation,
\* any other error is ignored, the entries are stat'ed one by one
ScanReaddirDone(t, answer) ==
    /\ tasks[t].pc = "readdir"
    /\ tasks' = [tasks EXCEPT ![t].pc =
                    IF answer = "entries" THEN "stat"
                    ELSE IF isPermissionError(OsError(answer)) THEN "throw"
                    ELSE "done"]
    /\ UNCHANGED <<ready, watch, file, hints>>
    /\ UNCHANGED <<runtimes, rt, child, provider, call, reactions, microtasks, starts, fp, lg,
                   disk, projectDirIndex, generated, deleted, last>>

\* fs.stat of the entry has answered: a file of the threshold size or more
\* enters the directory in the set and logs the advisory; the Error thrown
\* for a permission error carries no code and is ignored by the outer catch
ScanStatDone(t, answer) ==
    /\ tasks[t].pc = "stat"
    /\ tasks' = [tasks EXCEPT ![t].pc =
                    IF answer \notin {"large", "small"}
                       /\ isPermissionError(OsError(answer))
                       /\ isPermissionError(ThrownError(
                              formatPermissionMessage(tasks[t].dir, "read")))
                    THEN "throw" ELSE "done"]
    /\ hints' = IF answer = "large"
                THEN [hinted |-> hints.hinted \cup {tasks[t].dir},
                      warned |-> Append(hints.warned, tasks[t].dir)]
                ELSE hints
    /\ UNCHANGED <<ready, watch, file>>
    /\ UNCHANGED <<runtimes, rt, child, provider, call, reactions, microtasks, starts, fp, lg,
                   disk, projectDirIndex, generated, deleted, last>>

NextScans ==
    \/ \E assetDir \in AssetDirs : StartScan(assetDir)
    \/ \E t \in 1..Len(tasks), answer \in ReaddirAnswers : ScanReaddirDone(t, answer)
    \/ \E t \in 1..Len(tasks), answer \in StatAnswers : ScanStatDone(t, answer)

SpecScans == Init /\ [][NextScans]_vars

\* -------------------------------------------- createProject, await by await
NewCreate(name) ==
    [op |-> "createProject", name |-> normalizeProjectName(name), attempt |-> 0,
     dir |-> NoDir, id |-> NoId, branchId |-> NoId, pc |-> "exists"]

\* createProject(project) up to the first pathExists of getUniqueProjectDir
StartCreateProject(name) ==
    /\ Len(tasks) < NumTasks
    /\ tasks' = Append(tasks, NewCreate(name))
    /\ UNCHANGED <<disk, projectDirIndex, generated, deleted, last, ready, watch, file, hints>>
    /\ UNCHANGED <<runtimes, rt, child, provider, call, reactions, microtasks, starts, fp, lg>>

\* getUniqueProjectDir: pathExists(candidatePath) has answered; a free
\* candidate is returned and ensureProjectStructure called on it, a taken
\* one makes the loop try the next suffix
PathExistsDone(t) ==
    /\ tasks[t].pc = "exists"
    /\ LET candidateName == CandidateName(toDirectoryName(tasks[t].name), tasks[t].attempt)
       IN  IF ~pathExists(disk, candidateName)
           THEN tasks' = [tasks EXCEPT ![t].pc = "structure", ![t].dir = candidateName]
           ELSE /\ tasks[t].attempt < MaxSuffix
                /\ tasks' = [tasks EXCEPT ![t].attempt = @ + 1]
    /\ UNCHANGED <<disk, projectDirIndex, generated, deleted, last, ready, watch, file, hints>>
    /\ UNCHANGED <<runtimes, rt, child, provider, call, reactions, microtasks, starts, fp, lg>>

\* ensureProjectStructure(dirPath) has made the directories: generateId(),
\* then writeProjectMeta is called
StructureDone(t) ==
    /\ tasks[t].pc = "structure"
    /\ generated + 1 <= MaxIds
    /\ disk' = ensureProjectStructure(disk, tasks[t].dir)
    /\ generated' = generated + 1
    /\ tasks' = [tasks EXCEPT ![t].pc = "meta", ![t].id = generated + 1]
    /\ UNCHANGED <<projectDirIndex, deleted, last, ready, watch, file, hints>>
    /\ UNCHANGED <<runtimes, rt, child, provider, call, reactions, microtasks, starts, fp, lg>>

\* writeProjectMeta has written meta.json: the index entry is set and
\* ensureDefaultBranch lists the branches
MetaWritten(t) ==
    /\ tasks[t].pc = "meta"
    /\ disk' = writeProjectMeta(disk, tasks[t].dir,
                                [id |-> tasks[t].id, name |-> tasks[t].name])
    /\ projectDirIndex' = [projectDirIndex EXCEPT ![tasks[t].id] = tasks[t].dir]
    /\ tasks' = [tasks EXCEPT ![t].pc = "branches"]
    /\ UNCHANGED <<generated, deleted, last, ready, watch, file, hints>>
    /\ UNCHANGED <<runtimes, rt, child, provider, call, reactions, microtasks, starts, fp, lg>>

\* ensureDefaultBranch: listBranches(project.id) has answered; with no branch
\* listed the default branch takes the next id and is written
BranchesListed(t) ==
    /\ tasks[t].pc = "branches"
    /\ IF disk[tasks[t].dir].branches # {}
       THEN /\ tasks' = [tasks EXCEPT ![t].pc = "done"]
            /\ generated' = generated
       ELSE /\ generated + 1 <= MaxIds
            /\ tasks' = [tasks EXCEPT ![t].pc = "branch", ![t].branchId = generated + 1]
            /\ generated' = generated + 1
    /\ UNCHANGED <<disk, projectDirIndex, deleted, last, ready, watch, file, hints>>
    /\ UNCHANGED <<runtimes, rt, child, provider, call, reactions, microtasks, starts, fp, lg>>

\* ensureDefaultBranch: the branch file has been written; createProject returns
BranchWritten(t) ==
    /\ tasks[t].pc = "branch"
    /\ disk' = writeBranchFile(disk, tasks[t].dir,
                               [id |-> tasks[t].branchId, projectId |-> tasks[t].id,
                                isDefault |-> TRUE])
    /\ tasks' = [tasks EXCEPT ![t].pc = "done"]
    /\ UNCHANGED <<projectDirIndex, generated, deleted, last, ready, watch, file, hints>>
    /\ UNCHANGED <<runtimes, rt, child, provider, call, reactions, microtasks, starts, fp, lg>>

NextCreate ==
    \/ \E name \in {Foo, Bar} : StartCreateProject(name)
    \/ \E t \in 1..Len(tasks) : PathExistsDone(t)
    \/ \E t \in 1..Len(tasks) : StructureDone(t)
    \/ \E t \in 1..Len(tasks) : MetaWritten(t)
    \/ \E t \in 1..Len(tasks) : BranchesListed(t)
    \/ \E t \in 1..Len(tasks) : BranchWritten(t)

SpecCreate == Init /\ [][NextCreate]_vars

\* ------------------------------- supervisors of different projects, ports
\* Each entry of tasks is the LocalSandboxRuntime of one project, followed
\* from its ensureStarted() on: spawnProcess awaits the mkdir, then every
\* trial bind of findAvailablePort, and spawns the command with PORT set to
\* the port found.  A port is occupied while a child listens on it; a child
\* starts to listen some time after it was spawned.
NewSupervisor(preferredPort) ==
    [op |-> "ensureStarted", preferredPort |-> preferredPort, port |-> preferredPort,
     i |-> 0, resolvedPort |-> NoPort, process |-> FALSE, listening |-> FALSE,
     pc |-> "mkdir"]

ListeningPorts == {tasks[t].resolvedPort : t \in {u \in 1..Len(tasks) : tasks[u].listening}}

\* ensureStarted() of the supervisor of one more project: process and
\* startPromise are null, spawnProcess() runs up to its first await
SupervisorEnsureStarted(preferredPort) ==
    /\ Len(tasks) < NumSupervisors
    /\ tasks' = Append(tasks, NewSupervisor(preferredPort))
    /\ UNCHANGED <<ready, watch, file, hints>>
    /\ UNCHANGED <<runtimes, rt, child, provider, call, reactions, microtasks, starts, fp, lg,
                   disk, projectDirIndex, generated, deleted, last>>

\* ensureDirectoryExists has resolved: findAvailablePort creates its first
\* trial server
SupervisorMkdirDone(t) ==
    /\ tasks[t].pc = "mkdir"
    /\ tasks' = [tasks EXCEPT ![t].pc = "probe"]
    /\ UNCHANGED <<ready, watch, file, hints>>
    /\ UNCHANGED <<runtimes, rt, child, provider, call, reactions, microtasks, starts, fp, lg,
                   disk, projectDirIndex, generated, deleted, last>>

\* One trial bind of findAvailablePort has answered and its server is
\* closed.  On 'listening' the port is returned and spawnProcess stores it in
\* resolvedPort and spawns the child in the same turn; on 'error' the next
\* port is tried, and after the last attempt the next port is returned
\* untried.
SupervisorProbeDone(t) ==
    /\ tasks[t].pc = "probe"
    /\ LET me == tasks[t]
           spawned(port) == [me EXCEPT !.resolvedPort = port, !.process = TRUE,
                                       !.pc = "started"]
       IN  tasks' = [tasks EXCEPT ![t] =
               IF TrialBind(me.port, ListeningPorts)
               THEN spawned(me.port)
               ELSE IF MoreAttempts(me.i + 1, DefaultAttempts)
                    THEN [me EXCEPT !.port = NextProbe(me.port), !.i = me.i + 1]
                    ELSE [spawned(NextProbe(me.port)) EXCEPT !.port = NextProbe(me.port),
                                                             !.i = me.i + 1]]
    /\ UNCHANGED <<ready, watch, file, hints>>
    /\ UNCHANGED <<runtimes, rt, child, provider, call, reactions, microtasks, starts, fp, lg,
                   disk, projectDirIndex, generated, deleted, last>>

\* The spawned command binds the port it was given in PORT, which succeeds
\* while no other child listens on it
SupervisorChildListens(t) ==
    /\ tasks[t].process
    /\ ~tasks[t].listening
    /\ tasks[t].resolvedPort \notin ListeningPorts
    /\ tasks' = [tasks EXCEPT ![t].listening = TRUE]
    /\ UNCHANGED <<ready, watch, file, hints>>
    /\ UNCHANGED <<runtimes, rt, child, provider, call, reactions, microtasks, starts, fp, lg,
                   disk, projectDirIndex, generated, deleted, last>>

\* The child exits (on its own, for instance because its port was taken):
\* the 'exit' listener clears the handle
SupervisorChildExit(t) ==
    /\ tasks[t].process
    /\ tasks' = [tasks EXCEPT ![t].process = FALSE, ![t].listening = FALSE,
                              ![t].pc = "exited"]
    /\ UNCHANGED <<ready, watch, file, hints>>
    /\ UNCHANGED <<runtimes, rt, child, provider, call, reactions, microtasks, starts, fp, lg,
                   disk, projectDirIndex, generated, deleted, last>>

NextSupervisors ==
    \/ \E preferredPort \in StartPorts : SupervisorEnsureStarted(preferredPort)
    \/ \E t \in 1..Len(tasks) : SupervisorMkdirDone(t)
    \/ \E t \in 1..Len(tasks) : SupervisorProbeDone(t)
    \/ \E t \in 1..Len(tasks) : SupervisorChildListens(t)
    \/ \E t \in 1..Len(tasks) : SupervisorChildExit(t)

SpecSupervisors == Init /\ [][NextSupervisors]_vars

\* =================================================================== claims
\* ensureStarted() called by c has returned successfully to its caller
StartReturned(c) ==
    \/ call[c].op = "ensureStarted" /\ call[c].pc = "resolved"
    \/ call[c].pc = "afterStart"

\* stop() called by c has returned to its caller
StopReturned(c) ==
    \/ call[c].op = "stop" /\ call[c].pc = "resolved"
    \/ call[c].pc = "afterStop"

InSpawnProcess(r) == {c \in Callers : call[c].pc \in {"spMkdir", "spPort"} /\ call[c].rt = r}

\* C1: concurrent ensureStarted() calls on one supervisor that has no process
\* share one start: at most one spawnProcess is in flight per supervisor, none
\* while it has a process, and every call issued while there was no process
\* returns after exactly one spawn has happened since it was issued, holding
\* the child of that spawn.
C1_SingleFlightStart ==
    /\ \A r \in RtIds : Cardinality(InSpawnProcess(r)) <= 1
    /\ \A r \in RtIds : InSpawnProcess(r) # {} => rt[r].process = NoChild
    /\ \A c \in Callers :
          StartReturned(c) /\ call[c].idleAtCall =>
              /\ SpawnedBy(call[c].rt) = call[c].spawnedAtCall + 1
              /\ rt[call[c].rt].process # NoChild
              /\ child[rt[call[c].rt].process].rt = call[c].rt

\* two callers have both returned from ensureStarted() calls issued while the
\* supervisor had no process, and it has spawned once
C1_Witness ==
    \E c1, c2 \in Callers :
        /\ c1 # c2
        /\ call[c1].op = "ensureStarted" /\ call[c2].op = "ensureStarted"
        /\ call[c1].pc = "resolved" /\ call[c2].pc = "resolved"
        /\ call[c1].idleAtCall /\ call[c2].idleAtCall
        /\ call[c1].rt = call[c2].rt
        /\ call[c1].spawnedAtCall = 0 /\ call[c2].spawnedAtCall = 0
        /\ SpawnedBy(call[c1].rt) = 1

AliveOfProject(s) ==
    {k \in ChildIds : child[k].state = "alive" /\ rt[child[k].rt].sandboxId = s}

\* C2: at most one dev-server child process of a project is alive at any time
C2_OneLiveProcessPerProject ==
    \A s \in SandboxIds : Cardinality(AliveOfProject(s)) <= 1

\* C3: stop() is idempotent: kill('SIGTERM') is called at most once on any
\* child, and exactly once on the child of every stop() that found a process
\* and has returned, however many stop() calls were made on it; a stop() that
\* finds no process changes neither the supervisor nor any child.
C3_StopIdempotent ==
    /\ [](\A k \in ChildIds : child[k].termCalls <= 1)
    /\ [](\A c \in Callers :
            StopReturned(c) /\ call[c].target # NoChild => child[call[c].target].termCalls = 1)
    /\ [][\A c \in Callers :
            (call[c].pc = "idle" /\ call'[c].pc # "idle" /\ call'[c].op = "stop"
             /\ rt[provider[c].runtime].process = NoChild)
            => (rt' = rt /\ child' = child /\ StopReturned(c)')]_vars

\* two stop() calls on the same child have both returned
C3_Witness ==
    \E c1, c2 \in Callers :
        /\ c1 # c2
        /\ call[c1].op = "stop" /\ call[c2].op = "stop"
        /\ call[c1].pc = "resolved" /\ call[c2].pc = "resolved"
        /\ call[c1].target # NoChild /\ call[c1].target = call[c2].target
        /\ child[call[c1].target].termCalls = 1

\* C4: the forceful signal (kill('SIGKILL'), issued together with the
\* force-kill warning log entry) goes out only while the child being stopped
\* has not exited.
C4_ForceKillOnlyBeforeExit ==
    [][\A k \in ChildIds :
          child'[k].killCalls > child[k].killCalls => child[k].state # "exited"]_vars

\* C5: a stop() call that found a child returns only after that child's
\* 'exit' event, and at the moment it returns the supervisor is Idle: it
\* holds no child handle and no start or stop is in flight.
C5_StopResolvesAfterExit ==
    /\ [](\A c \in Callers :
            StopReturned(c) /\ call[c].target # NoChild =>
                /\ child[call[c].target].state = "exited"
                /\ rt[call[c].rt].process = NoChild)
    /\ [][\A c \in Callers :
            (~StopReturned(c) /\ StopReturned(c)' /\ call'[c].target # NoChild) =>
                /\ child'[call'[c].target].state = "exited"
                /\ rt'[call'[c].rt].process = NoChild
                /\ rt'[call'[c].rt].startPromise = NoPromise
                /\ rt'[call'[c].rt].stopPromise = NoPromise]_vars

\* a stop() call that signalled a child has returned
C5_Witness ==
    \E c \in Callers :
        /\ call[c].op = "stop" /\ call[c].pc = "resolved"
        /\ call[c].target # NoChild
        /\ child[call[c].target].termCalls = 1
        /\ child[call[c].target].state = "exited"

\* C6: restart() is stop() then ensureStarted(): a child is spawned only when
\* the supervisor has no live child, so that old and new child never coexist,
\* and when restart() has returned the supervisor holds exactly one running
\* child, spawned by the one start the restart() calls shared.
C6_RestartSequential ==
    /\ [](\A r \in RtIds : Cardinality(AliveOf(r)) <= 1)
    /\ [][\A k \in ChildIds :
            (child[k].state = "none" /\ child'[k].state # "none") =>
                /\ AliveOf(child'[k].rt) = {}
                /\ rt[child'[k].rt].process = NoChild]_vars
    /\ [](\A c \in Callers :
            call[c].op = "restart" /\ call[c].pc = "resolved" =>
                /\ rt[call[c].rt].process # NoChild
                /\ AliveOf(call[c].rt) = {rt[call[c].rt].process}
                /\ SpawnedBy(call[c].rt) = call[c].spawnedAtCall + 1)

\* C7: when the child exits on its own while the supervisor is Running, the
\* supervisor logs a warning and is Idle, no caller is resumed or rejected,
\* and an ensureStarted() on the Idle supervisor starts one spawnProcess and
\* returns holding a child that has not exited.
C7_CrashSelfHeals ==
    /\ [][\A k \in ChildIds :
            (/\ child[k].state = "alive" /\ child'[k].state = "exited"
             /\ child[k].signalled = "none"
             /\ rt[child[k].rt].process = k
             /\ rt[child[k].rt].stopPromise = NoPromise) =>
                /\ rt'[child[k].rt].process = NoChild
                /\ rt'[child[k].rt].startPromise = NoPromise
                /\ rt'[child[k].rt].stopPromise = NoPromise
                /\ rt'[child[k].rt].logBuffer # <<>>
                /\ rt'[child[k].rt].logBuffer[Len(rt'[child[k].rt].logBuffer)]
                       = LogEntry("warn", "Sandbox exited with")
                /\ call' = call
                /\ microtasks' = <<>>]_vars
    /\ [][\A c \in Callers :
            (/\ call[c].pc = "idle" /\ call'[c].op = "ensureStarted"
             /\ rt[provider[c].runtime].process = NoChild
             /\ rt[provider[c].runtime].startPromise = NoPromise) =>
                /\ call'[c].pc = "spMkdir"
                /\ rt'[provider[c].runtime].startPromise = c
                /\ Cardinality(InSpawnProcess(provider[c].runtime)') = 1]_vars
    /\ [](\A c \in Callers :
            StartReturned(c) =>
                /\ rt[call[c].rt].process # NoChild
                /\ child[rt[call[c].rt].process].state # "exited")

\* a child has crashed, and an ensureStarted() issued afterwards has returned
\* with a new live child
C7_Witness ==
    \E c \in Callers, k \in ChildIds :
        /\ call[c].op = "ensureStarted" /\ call[c].pc = "resolved"
        /\ call[c].idleAtCall /\ call[c].spawnedAtCall >= 1
        /\ child[k].rt = call[c].rt /\ child[k].crashed
        /\ rt[call[c].rt].process # k
        /\ rt[call[c].rt].process # NoChild
        /\ child[rt[call[c].rt].process].state = "alive"

\* C8: a failed spawn is delivered to the caller of ensureStarted(): the
\* supervisor never holds the handle of a child that failed to spawn, and
\* when ensureStarted() rejects the start handle is cleared and the supervisor
\* holds no child.
C8_SpawnFailureSurfaces ==
    /\ \A r \in RtIds :
          rt[r].process # NoChild => child[rt[r].process].state # "dead"
    /\ \A c \in Callers :
          call[c].op = "ensureStarted" /\ call[c].pc = "rejected" =>
              /\ rt[call[c].rt].startPromise = NoPromise
              /\ rt[call[c].rt].process = NoChild

\* C9: when a trial bind succeeds, findAvailablePort has probed startPort,
\* startPort + 1, ... in order, every earlier trial failed, and it returns the
\* port of the successful trial, the smallest such port of the range
\* startPort .. startPort + attempts - 1.
C9_FirstFreePort ==
    LET n == Len(fp.probed)
        failed == {fp.probed[j][1] : j \in {i \in 1..n : ~fp.probed[i][2]}}
    IN  /\ \A j \in 1..n : fp.probed[j][1] = fp.startPort + j - 1
        /\ n <= fp.attempts
        /\ (fp.pc = "done" /\ \E j \in 1..n : fp.probed[j][2]) =>
              /\ fp.probed[n][2]
              /\ fp.result = fp.probed[n][1]
              /\ \A j \in 1..(n - 1) : ~fp.probed[j][2]
              /\ fp.startPort <= fp.result /\ fp.result < fp.startPort + fp.attempts
              /\ fp.result = findAvailablePort(fp.startPort, fp.attempts, failed)

\* findAvailablePort(3000, 6) has returned 3005 after 3000-3004 refused
C9_Witness ==
    /\ fp.pc = "done"
    /\ fp.startPort = DEFAULT_PREFERRED_PORT
    /\ Len(fp.probed) = 6
    /\ fp.probed[6][2]
    /\ fp.result = DEFAULT_PREFERRED_PORT + 5

\* C10: when every one of the attempts trial binds failed, findAvailablePort
\* returns the last port it probed, startPort + attempts - 1.
C10_ReturnsLastProbed ==
    (/\ fp.pc = "done" /\ fp.attempts > 0
     /\ \A j \in 1..Len(fp.probed) : ~fp.probed[j][2]) =>
        /\ fp.result = fp.probed[Len(fp.probed)][1]
        /\ fp.result = fp.startPort + fp.attempts - 1

Min(a, b) == IF a < b THEN a ELSE b

\* C11: the log buffer never holds more than maxLogLines entries, and it
\* holds exactly the most recently appended entries, oldest first; getLogs
\* returns them in that order, and getLogs(level) those of one level.
C11_LogBufferKeepsMostRecent ==
    LET n == Len(lg.appended)
        k == Min(n, lg.maxLogLines)
    IN  /\ Len(lg.logBuffer) <= lg.maxLogLines
        /\ lg.logBuffer = SubSeq(lg.appended, n - k + 1, n)
        /\ getLogs(lg.logBuffer, "all") = SubSeq(lg.appended, n - k + 1, n)
        /\ \A level \in LogLevels :
              getLogs(lg.logBuffer, level)
                  = FilterLevel(SubSeq(lg.appended, n - k + 1, n), level)

\* four entries were appended to a buffer capped at two: the two oldest,
\* which differ from the ones kept, are gone
C11_Witness ==
    /\ lg.maxLogLines = 2
    /\ Len(lg.appended) = 4
    /\ lg.logBuffer = <<lg.appended[3], lg.appended[4]>>
    /\ lg.appended[1] # lg.appended[3]
    /\ lg.appended[2] # lg.appended[4]


\* the directory that holds project id on disk, NoDir if none does
DirOfProject(dsk, id) ==
    IF \E d \in DirNames : dsk[d].exists /\ dsk[d].meta.id = id
    THEN CHOOSE d \in DirNames : dsk[d].exists /\ dsk[d].meta.id = id
    ELSE NoDir

\* candidate n of baseName is free, or is the directory own
CandidateAccepted(dsk, baseName, n, own) ==
    \/ ~dsk[CandidateName(baseName, n)].exists
    \/ CandidateName(baseName, n) = own

\* C12: when createProject or updateProject succeeds, the project's directory
\* is the sanitized name with the smallest suffix (none, then (1), (2), ...)
\* whose path was free or was already the project's own directory; it is
\* never a directory that belonged to a different project, and no other
\* project's directory is touched.
C12_Step ==
    LET p == last'.projectId
        dir == last'.dir
        baseName == toDirectoryName(disk'[dir].meta.name)
        own == DirOfProject(disk, p)
    IN  (last'.op \in {"createProject", "updateProject"} /\ last'.result = "ok") =>
            /\ disk'[dir].exists /\ disk'[dir].meta.id = p
            /\ projectDirIndex'[p] = dir
            /\ \E n \in 0..MaxSuffix :
                  /\ dir = CandidateName(baseName, n)
                  /\ CandidateAccepted(disk, baseName, n, own)
                  /\ \A m \in 0..(n - 1) : ~CandidateAccepted(disk, baseName, m, own)
            /\ ~(disk[dir].exists /\ disk[dir].meta.id # p)
            /\ \A d \in DirNames : (d # dir /\ d # own) => disk'[d] = disk[d]

C12_UniqueDirectory == [][C12_Step]_vars

\* a project was renamed to Bar while another project owns the directory Bar,
\* and it is in Bar (1)
C12_Witness ==
    /\ last.op = "updateProject" /\ last.result = "ok"
    /\ last.dir = CandidateName(Bar, 1)
    /\ disk[last.dir].meta = [id |-> last.projectId, name |-> Bar]
    /\ disk[Bar].exists /\ disk[Bar].meta.id # last.projectId
    /\ projectDirIndex[last.projectId] = CandidateName(Bar, 1)

\* every index entry names an existing directory whose meta.json records the
\* entry's id, and no two directories record the same id
IndexAgreesWithDisk ==
    /\ \A i \in Ids : projectDirIndex[i] # NoDir =>
          /\ disk[projectDirIndex[i]].exists
          /\ disk[projectDirIndex[i]].meta.id = i
    /\ \A d, e \in ProjectDirs : disk[d].meta.id = disk[e].meta.id => d = e

\* a step keeps the id of every project: createProject adds the id it
\* returns, deleteProject takes away the id it was given, and nothing else
\* changes the ids on disk; updateProject returns the id it was given
IdsKept ==
    /\ ProjectIdsOnDisk' =
           IF last'.op = "createProject" THEN ProjectIdsOnDisk \cup {last'.ret}
           ELSE IF last'.op = "deleteProject" /\ last'.result = "true"
                THEN ProjectIdsOnDisk \ {last'.projectId}
                ELSE ProjectIdsOnDisk
    /\ (last'.op = "createProject") => last'.ret \notin ProjectIdsOnDisk
    /\ (last'.op = "updateProject" /\ last'.result = "ok") =>
          /\ last'.ret = last'.projectId
          /\ last'.projectId \in ProjectIdsOnDisk
          /\ disk'[last'.dir].meta.id = last'.projectId

\* C13: over createProject, updateProject (renames included) and
\* deleteProject every project keeps the id it was created with, and every
\* entry id -> dir of the in-memory index names a directory that exists on
\* disk and whose meta.json records that id.
C13_IdStableIndexAgrees == []IndexAgreesWithDisk /\ [][IdsKept]_vars

\* a project was renamed into another directory: the index follows it and
\* the directory still records the id the project was created with
C13_Witness ==
    /\ last.op = "updateProject" /\ last.result = "ok"
    /\ last.dir = Bar
    /\ disk[Bar].meta.id = last.projectId
    /\ disk[Bar].meta.name = BarDot
    /\ projectDirIndex[last.projectId] = Bar
    /\ ~disk[Foo].exists
    /\ \E i \in Ids : i # last.projectId /\ projectDirIndex[i] # NoDir

\* deleteProject returned true: the directory is gone with all it held, the
\* index has no entry for the id and no directory records the id
DeletedIsGone ==
    (last'.op = "deleteProject" /\ last'.result = "true") =>
        /\ last'.projectId \in deleted'
        /\ disk'[last'.dir] = NoDirectory
        /\ projectDirIndex'[last'.projectId] = NoDir
        /\ DirOfProject(disk', last'.projectId) = NoDir

\* a project deleted at any earlier time is not found by getProject
DeletedStaysGone ==
    /\ \A p \in deleted : ~GetProjectFound(disk, projectDirIndex, p)
    /\ (last.op = "getProject" /\ last.projectId \in deleted) => last.result = "null"

\* C14: after deleteProject(id) returned true the project's directory subtree
\* is gone, the index has no entry for id, and every later getProject(id)
\* returns null.
C14_DeleteProjectRemovesAll == []DeletedStaysGone /\ [][DeletedIsGone]_vars

\* getProject was called for a deleted project, after another project was
\* created, and returned null
C14_Witness ==
    /\ last.op = "getProject" /\ last.projectId \in deleted /\ last.result = "null"
    /\ \E d \in ProjectDirs : disk[d].meta.id > last.projectId


\* the frames embedded in the canvases of directory d that pass the filters
\* (NoId: no filter)
EmbeddedFrames(dsk, d, canvasId, branchId) ==
    {fr \in UNION {{cv.frames[i] : i \in 1..Len(cv.frames)} :
                   cv \in {c \in dsk[d].canvases : canvasId = NoId \/ c.id = canvasId}} :
        branchId = NoId \/ fr.branchId = branchId}

\* listFrames returns exactly the embedded frames that pass its filters
ListFramesExact ==
    (last'.op = "listFrames" /\ last'.dir # NoDir) =>
        /\ last'.frames = EmbeddedFrames(disk', last'.dir, last'.canvasId, last'.branchId)
        /\ last'.frames = EmbeddedFrames(disk, last'.dir, last'.canvasId, last'.branchId)

\* after createFrame under an existing canvas and branch, listFrames with
\* that branch as filter contains the frame
CreatedFrameListed ==
    (/\ last'.op = "createFrame" /\ last'.result = "ok"
     /\ \E b \in disk[last'.dir].branches : b.id = last'.branchId) =>
        \A reversed \in BOOLEAN :
            [id |-> last'.ret, projectId |-> last'.projectId, canvasId |-> last'.canvasId,
             branchId |-> last'.branchId]
                \in listFrames(disk', last'.dir, NoId, last'.branchId, reversed)

\* after deleteFrame of a frame, listFrames for the canvas that held it no
\* longer contains it, and is empty if it was the canvas's only frame
DeletedFrameNotListed ==
    (last'.op = "deleteFrame" /\ last'.result = "true") =>
        LET listed == listFrames(disk', last'.dir, last'.canvasId, NoId, FALSE)
            before == EmbeddedFrames(disk, last'.dir, last'.canvasId, NoId)
        IN  /\ \A fr \in listed : fr.id # last'.id
            /\ listed = {fr \in before : fr.id # last'.id}
            /\ Cardinality(before) = 1 => listed = {}

C15_Step == ListFramesExact /\ CreatedFrameListed /\ DeletedFrameNotListed

\* C15: listFrames(projectId, {canvasId?, branchId?}) returns exactly the
\* frames embedded in the project's canvases that pass the given filters;
\* after createFrame under an existing canvas and branch, listFrames({branchId})
\* contains the frame, and after deleteFrame of it listFrames for that canvas
\* no longer contains it and is empty if it was the only frame.
C15_ListFramesExact == [][C15_Step]_vars

\* the only frame of a canvas, created on a branch other than the default
\* one, was deleted: two branches and an empty canvas are left
C15_Witness ==
    /\ last.op = "deleteFrame" /\ last.result = "true"
    /\ last.id = generated
    /\ \E cv \in disk[last.dir].canvases : cv.id = last.canvasId /\ cv.frames = <<>>
    /\ Cardinality(disk[last.dir].branches) = 2


\* the branch of directory d that was created first: ids are handed out in
\* ascending order
FirstBranch(d) == CHOOSE b \in disk[d].branches : \A c \in disk[d].branches : b.id <= c.id

\* C16: over createProject, createBranch, updateBranch and deleteBranch every
\* existing project has at least one branch, and the first branch of a
\* project, which createProject creates, has isDefault = TRUE.
C16_ProjectHasDefaultBranch ==
    \A d \in ProjectDirs :
        /\ disk[d].branches # {}
        /\ FirstBranch(d).isDefault

\* C17: every frame createFrame stores references a canvas and a branch that
\* both exist in the project when it is created.
C17_Step ==
    (last'.op = "createFrame" /\ last'.result = "ok") =>
        /\ \E cv \in disk[last'.dir].canvases : cv.id = last'.canvasId
        /\ \E b \in disk[last'.dir].branches : b.id = last'.branchId
        /\ \E cv \in disk'[last'.dir].canvases :
              /\ cv.id = last'.canvasId
              /\ \E i \in 1..Len(cv.frames) :
                    cv.frames[i] = [id |-> last'.ret, projectId |-> last'.projectId,
                                    canvasId |-> last'.canvasId, branchId |-> last'.branchId]

C17_FrameReferencesExist == [][C17_Step]_vars


\* whether directory d holds a document with the given id
HasCanvas(dsk, d, id) == d # NoDir /\ \E cv \in dsk[d].canvases : cv.id = id
HasConversation(dsk, d, id) == d # NoDir /\ \E cn \in dsk[d].conversations : cn.id = id

\* createFrame under a canvas id without a canvas file throws, hands out no
\* id and leaves every document as it was; under a canvas that exists it
\* does not throw
CreateFrameNeedsCanvas ==
    (last'.op = "createFrame") =>
        LET d == DirOfProject(disk, last'.projectId)
        IN  IF HasCanvas(disk, d, last'.canvasId)
            THEN last'.result = "ok"
            ELSE /\ last'.result = "throw"
                 /\ disk' = disk
                 /\ generated' = generated

\* the reads return null for an id that is missing and the document for one
\* that is there; they never throw
ReadsReturnNull ==
    /\ (last'.op = "getProject") =>
          last'.result = IF last'.projectId \in ProjectIdsOnDisk THEN "ok" ELSE "null"
    /\ (last'.op = "getCanvas") =>
          last'.result = IF HasCanvas(disk, DirOfProject(disk, last'.projectId), last'.canvasId)
                         THEN "ok" ELSE "null"
    /\ (last'.op = "getConversation") =>
          last'.result = IF HasConversation(disk, DirOfProject(disk, last'.projectId), last'.id)
                         THEN "ok" ELSE "null"

\* C18: createFrame for a canvas id that has no canvas file throws a
\* not-found error and leaves every canvas document of the project
\* unchanged, whereas getProject, getCanvas and getConversation return null
\* for a missing id instead of throwing.
C18_MissingParentThrowsReadsNull == [][CreateFrameNeedsCanvas /\ ReadsReturnNull]_vars

\* createFrame threw in a project that exists and has a canvas, for a canvas
\* id that is not a canvas of it
C18_Witness ==
    /\ last.op = "createFrame" /\ last.result = "throw"
    /\ last.dir # NoDir
    /\ disk[last.dir].canvases # {}
    /\ \A cv \in disk[last.dir].canvases : cv.id # last.canvasId /\ cv.frames = <<>>


\* C19: over createFrame, updateFrame, deleteFrame and the migration of
\* legacy frame files, no frame id occurs more than once across the canvases
\* of a project.
C19_FrameIdsUnique ==
    \A d \in ProjectDirs :
        \A cv1, cv2 \in disk[d].canvases :
            \A i \in 1..Len(cv1.frames), j \in 1..Len(cv2.frames) :
                cv1.frames[i].id = cv2.frames[j].id => (cv1.id = cv2.id /\ i = j)


\* the read and list operations the self-healing of the project structure
\* is claimed for
ReadOperations ==
    {"getProject", "listBranches", "getCanvas", "listCanvases", "listFrames",
     "getConversation", "listConversations", "listFiles", "listAssets"}

\* C20: after a read or list operation on an existing project has completed
\* successfully (getProject, listProjects, listBranches, getCanvas,
\* listCanvases, listFrames, getConversation, listConversations, listFiles,
\* listAssets), the project directory holds all six subdirectories files,
\* canvases, conversations, previews, assets and branches, also when some of
\* them had been removed before the call.
C20_Step ==
    /\ (/\ last'.op \in ReadOperations
        /\ last'.result = "ok"
        /\ last'.projectId \in ProjectIdsOnDisk) =>
          disk'[DirOfProject(disk, last'.projectId)].subdirs = RequiredSubdirectories
    /\ (last'.op = "listProjects") =>
          \A d \in ProjectDirs : disk'[d].subdirs = RequiredSubdirectories

C20_ReadsRepairStructure == [][C20_Step]_vars


\* What one getConversation that returns a document does to the file
C21_Step ==
    (last'.op = "getConversation" /\ last'.result = "ok") =>
        LET d == last'.dir
            cid == last'.id
            before == ConversationFile(disk, d, cid)
            returned == readConversationFile(disk, d, cid)
        IN  /\ before.version = NoVersion =>
                /\ last'.wrote
                /\ ConversationFile(disk', d, cid).version = CONVERSATION_FILE_VERSION
            /\ last'.version = CONVERSATION_FILE_VERSION
            /\ ConversationFile(disk', d, cid) = returned
            /\ ReadConversationResult(disk', d, cid) = "ok"
            /\ readConversationFile(disk', d, cid) = returned
            /\ DiskAfterReadConversation(disk', d, cid) = disk'
            /\ before.version = CONVERSATION_FILE_VERSION =>
                /\ ~last'.wrote
                /\ disk' = disk

\* Every file listConversations returned is left at the current version
C21_Listed ==
    (last'.op = "listConversations" /\ last'.result = "ok") =>
        \A cid \in last'.listed :
            ConversationFile(disk', last'.dir, cid).version = CONVERSATION_FILE_VERSION

\* C21: migration of a conversation file is idempotent.  A read of a file
\* with no version field that returns a document rewrites the file, which
\* then holds the document returned, at the current version; reading the
\* file as it is left returns the same document and writes nothing; and a
\* read of a file at the current version leaves the disk as it was.
C21_MigrationIdempotent == [][C21_Step /\ C21_Listed]_vars

\* getConversation has just read a file with no version field and written
\* it back at the current version
C21_Witness ==
    /\ last.op = "getConversation"
    /\ last.result = "ok"
    /\ last.wrote
    /\ ConversationFile(disk, last.dir, last.id).version = CONVERSATION_FILE_VERSION


\* The ids of the documents of a subdirectory that pass their schema, and
\* of those that parse as JSON and fail it
ValidIds(dsk, d, sub) ==
    CASE sub = "branches" -> {b.id : b \in dsk[d].branches}
      [] sub = "canvases" -> {cv.id : cv \in dsk[d].canvases}
      [] sub = "conversations" -> {cn.id : cn \in dsk[d].conversations}

MalformedIds(dsk, d, sub) == {m.id : m \in {x \in dsk[d].malformed : x.kind = sub}}

ListedSubdirectory ==
    [listBranches |-> "branches", listCanvases |-> "canvases",
     listConversations |-> "conversations"]

C22_Step ==
    /\ (last'.op \in DOMAIN ListedSubdirectory /\ last'.dir # NoDir) =>
           LET sub == ListedSubdirectory[last'.op]
           IN  /\ last'.result = "ok"
               /\ ValidIds(disk', last'.dir, sub) \subseteq last'.listed
               /\ MalformedIds(disk', last'.dir, sub) \cap last'.listed = {}
    /\ (last'.op = "listProjects") =>
           /\ last'.result = "ok"
           /\ last'.listed = ProjectIdsOnDisk'

\* C22: in listProjects, listBranches, listCanvases and listConversations a
\* stored record that parses as JSON and fails schema validation is
\* skipped: the operation does not throw, returns every valid sibling
\* record and does not return the failing one.
C22_ListSkipsMalformed == [][C22_Step]_vars


\* The answer that made the call fail ("ok" when none did), following the
\* calls ensureAccess makes
FailingAnswer(options, os) ==
    IF os.access \notin {"ok", "ENOENT"} THEN os.access
    ELSE IF os.access = "ENOENT"
         THEN IF options.createIfMissing /\ options.kind = "directory"
              THEN IF os.mkdir # "ok" THEN os.mkdir ELSE os.access2
              ELSE "ENOENT"
         ELSE IF options.kind = "directory" /\ os.stat # "directory" THEN os.stat
              ELSE "ok"

\* Whether the failing answer came while the path was being created
WhileCreating(options, os) ==
    os.access = "ENOENT" /\ options.createIfMissing /\ options.kind = "directory"

\* C23: ensureAccess classifies each failure into exactly one shape:
\* permission-denied exactly for EACCES and EPERM, missing-path exactly when
\* the path does not exist and is not created, wrong-kind exactly when a
\* directory is expected and the path is a regular file, and generic-access
\* exactly for every other failure; a file found where a directory is
\* expected is reported as wrong-kind and not as generic-access.
C23_AccessClassified ==
    last.op = "ensureAccess" =>
        LET failing == FailingAnswer(last.options, last.os)
            shape == last.result.shape
        IN  /\ shape = "ok" <=> failing = "ok"
            /\ shape = "permission-denied" <=> failing \in {"EACCES", "EPERM"}
            /\ shape = "missing-path" <=>
                   (failing = "ENOENT" /\ ~WhileCreating(last.options, last.os))
            /\ shape = "wrong-kind" <=> failing = "file"
            /\ shape = "generic-access" <=>
                   \/ failing = "EIO"
                   \/ failing = "ENOENT" /\ WhileCreating(last.options, last.os)


\* initialize() under a permission error of fs.access on the projects root
\* rejects with the permission-denied message naming that path
BlockedRootRejects ==
    \A os \in InitializeAnswers :
        os.access \in {"EACCES", "EPERM"} =>
            initialize(os) = Rejection(formatPermissionMessage(ProjectsRoot, "write"))

\* Every operation of a store whose initialization was rejected with the
\* permission-denied message throws that message and touches no document
C24_Step ==
    (ready.state = "rejected" /\ ready.message.shape = "permission-denied") =>
        /\ last'.op \in PublicOperations
        /\ last'.result = "throw"
        /\ last'.message = ready.message
        /\ last'.message.path = ProjectsRoot
        /\ ~last'.wrote
        /\ disk' = disk
        /\ projectDirIndex' = projectDirIndex
        /\ generated' = generated

\* On such a store every public operation can be called, and rejects
C24_EveryOperationRejects ==
    (ready.state = "rejected" /\ ready.message.shape = "permission-denied") =>
        \A op \in PublicOperations : ENABLED Rejected(op)

\* C24: when the projects-root directory is blocked by an OS permission
\* error at store initialization, every public operation on that store
\* rejects with the permission-denied message naming the path, and no
\* operation reads or writes any document.
C24_BlockedRootRejectsAll ==
    /\ [](BlockedRootRejects /\ C24_EveryOperationRejects)
    /\ [][C24_Step]_vars

\* listProjects has just rejected with the permission-denied message of a
\* blocked projects root
C24_Witness ==
    /\ ready = Rejection(formatPermissionMessage(ProjectsRoot, "write"))
    /\ last.op = "listProjects"
    /\ last.result = "throw"
    /\ last.message = formatPermissionMessage(ProjectsRoot, "write")
    /\ disk = [d \in DirNames |-> NoDirectory]


\* A caller whose stopProject reaches LocalRuntimeRegistry.remove in this step
RemoveCalled(c) ==
    /\ call[c].op = "stopProject"
    /\ call[c].pc = "afterStop"
    /\ call'[c].pc = "resolved"

C25_Step ==
    \A s \in SandboxIds :
        /\ \A c \in Callers :
               (provider[c].sandboxId = s /\ provider'[c] # provider[c]) =>
                   /\ provider'[c].runtime = runtimes'[s]
                   /\ runtimes[s] # NoRuntime => provider'[c].runtime = runtimes[s]
                   /\ runtimes[s] = NoRuntime =>
                          /\ ~rt[provider'[c].runtime].exists
                          /\ rt'[provider'[c].runtime].exists
        /\ runtimes'[s] # runtimes[s] =>
               \/ /\ runtimes[s] # NoRuntime
                  /\ runtimes'[s] = NoRuntime
                  /\ \E c \in Callers : provider[c].sandboxId = s /\ RemoveCalled(c)
               \/ /\ runtimes[s] = NoRuntime
                  /\ ~rt[runtimes'[s]].exists
                  /\ rt'[runtimes'[s]].exists
        /\ (\E c \in Callers : provider[c].sandboxId = s /\ RemoveCalled(c)) =>
               runtimes'[s] = NoRuntime

\* C25: getOrCreate(id) returns the same supervisor object on every call
\* for the same id until remove(id) is called; an entry leaves the registry
\* only through remove(id), never through stop, crash or provider destroy;
\* and after remove(id) the next getOrCreate(id) constructs a new
\* supervisor.
C25_RegistryIdentity == [][C25_Step]_vars

\* Two providers hold two different supervisors of the same id: the second
\* was constructed after stopProject removed the first from the registry
C25_Witness ==
    \E c, d \in Callers :
        /\ provider[c].sandboxId = provider[d].sandboxId
        /\ provider[c].runtime # NoRuntime
        /\ provider[d].runtime # NoRuntime
        /\ provider[c].runtime # provider[d].runtime
        /\ runtimes[provider[d].sandboxId] = provider[d].runtime
        /\ rt[provider[c].runtime].exists


\* getPort(): the port createSession reports
PortReported(rtv, r) ==
    IF rtv[r].resolvedPort # NoPort THEN rtv[r].resolvedPort ELSE rtv[r].preferredPort

\* C26: restart() respawns the dev server on the port that was resolved at
\* the previous start: when the spawnProcess of a restart() has resolved
\* its port, the supervisor's resolved port, and so the port createSession
\* reports, is the one it was before, whatever ports became free or
\* occupied in between.
C26_RestartKeepsPort ==
    [][\A c \in Callers :
           (/\ call[c].op = "restart"
            /\ call[c].pc = "spPort"
            /\ call'[c].pc # "spPort"
            /\ rt[call[c].rt].resolvedPort # NoPort) =>
               /\ rt'[call[c].rt].resolvedPort = rt[call[c].rt].resolvedPort
               /\ PortReported(rt', call[c].rt) = PortReported(rt, call[c].rt)]_vars


\* The forward-slash path, relative to the project root, of the file the
\* FSWatcher reported
ForwardSlashRelative(sep, filePath) ==
    LET segments == CHOOSE sg \in WatchedSegments : FilePath(sep, sg) = filePath
    IN  IF segments = <<>> THEN <<".">> ELSE Join(segments, "/")

MatchingType ==
    [add |-> "add", addDir |-> "add", change |-> "change", unlink |-> "remove",
     unlinkDir |-> "remove"]

\* An event of the FSWatcher while a callback is registered is delivered
\* once, to that callback
C28_OneEventEach ==
    (watch # NoWatch /\ watch' # NoWatch /\ watch'.events = watch.events + 1
        /\ watch.callback # NoCallback) =>
        watch'.delivered =
            Append(watch.delivered,
                   [callback |-> watch.callback,
                    type |-> MatchingType[watch'.event.event],
                    paths |-> <<ForwardSlashRelative(watch.sep, watch'.event.filePath)>>])

\* Nothing is delivered but for an event, and to the callback registered
\* at that moment; stop() leaves no callback registered, and once it has
\* completed nothing is delivered
C28_NoneAfterStop ==
    (watch # NoWatch /\ watch' # NoWatch) =>
        /\ watch'.delivered # watch.delivered =>
               /\ watch'.events = watch.events + 1
               /\ watch.callback # NoCallback
               /\ watch.watcher # "closed"
        /\ (watch.watcher # "closed" /\ watch'.watcher = "closed") =>
               watch'.callback = NoCallback
        /\ watch.watcher = "closed" => watch'.delivered = watch.delivered

\* C28: each add, change or remove event of the operating system that
\* occurs while a callback is registered produces exactly one emitted event
\* of the matching type with a forward-slash path relative to the project
\* root, and after stop() has completed no further event is delivered to
\* the callback registered before.
C28_WatcherDelivers == [][C28_OneEventEach /\ C28_NoneAfterStop]_vars

\* On a platform with backslash separators the change of a\b was delivered
\* as a/b to the registered callback, and stop() has completed since
C28_Witness ==
    /\ watch # NoWatch
    /\ watch.sep = "\\"
    /\ watch.watcher = "closed"
    /\ watch.callback = NoCallback
    /\ \E i \in 1..Len(watch.delivered) :
           watch.delivered[i] = [callback |-> 1, type |-> "change",
                                 paths |-> << <<"a", "/", "b">> >>]


Ascending(messages) ==
    \A i, j \in 1..Len(messages) : i < j => messages[i].createdAt <= messages[j].createdAt

SameMessages(ms, ns) ==
    /\ Len(ms) = Len(ns)
    /\ {ms[i] : i \in 1..Len(ms)} = {ns[i] : i \in 1..Len(ns)}

C27_Step ==
    (last'.op = "getAll" /\ last'.result = "ok" /\ last'.dir # NoDir) =>
        /\ Ascending(last'.messages)
        /\ SameMessages(last'.messages,
                        ConversationFile(disk', last'.dir, last'.id).messages)

C29_LookupFindsExisting ==
    \A t \in 1..Len(tasks) :
        (/\ tasks[t].op = "getProjectDir"
         /\ tasks[t].pc = "done"
         /\ tasks[t].projectId \in ProjectIdsOnDisk) =>
            /\ tasks[t].result # NoDir
            /\ disk[tasks[t].result].meta.id = tasks[t].projectId

\* a stop() call is in flight: it was made and has not yet returned
StopPending(c) == call[c].op = "stop" /\ call[c].pc \notin {"idle", "resolved"}

\* the supervisor r is Idle: no child handle, no start or stop in flight
Idle(r) ==
    /\ rt[r].process = NoChild
    /\ rt[r].startPromise = NoPromise
    /\ rt[r].stopPromise = NoPromise

\* C30: the supervisor has no permanent terminal state: every stop() call
\* eventually resolves, and a supervisor with a stop() in flight is eventually
\* Idle, given that the operating system reports the exit of every signalled
\* child.
C30_StopEventuallyResolves ==
    \A c \in Callers :
        StopPending(c) ~> (StopReturned(c) \/ (call[c].op = "stop" /\ Idle(call[c].rt)))

\* the lifecycle state of supervisor r, read off its three fields
Lifecycle(r) ==
    IF rt[r].process # NoChild
    THEN (IF rt[r].stopPromise # NoPromise THEN "Stopping" ELSE "Running")
    ELSE (IF rt[r].startPromise # NoPromise THEN "Starting" ELSE "Idle")

LifecycleTransitions ==
    {<<"Idle", "Starting">>, <<"Starting", "Running">>, <<"Running", "Stopping">>,
     <<"Stopping", "Idle">>, <<"Running", "Idle">>}

SupervisorMessages ==
    {"Starting sandbox on port", "Sandbox exited with", "Sandbox restarted",
     "Force killing sandbox process after timeout"}

\* the step pushed an info or warn entry on the log buffer of supervisor r
LogAppended(r) ==
    \E level \in {"info", "warn"}, message \in SupervisorMessages :
        rt'[r].logBuffer = appendLog(rt[r].logBuffer, level, message)

\* C31: every lifecycle transition of a supervisor (Idle to Starting, Starting
\* to Running, Running to Stopping, Stopping to Idle, and Running to Idle on a
\* crash) appends an info or warn entry to its log buffer.
C31_TransitionsLogged ==
    [][\A r \in RtIds :
          (rt[r].exists /\ <<Lifecycle(r), Lifecycle(r)'>> \in LifecycleTransitions)
              => LogAppended(r)]_vars

\* the meta.json of directory d carries the current version and a brand
Upgraded(dsk, d) == dsk[d].version = PROJECT_META_VERSION /\ dsk[d].brand

\* a getProject that returned the project of directory last'.dir
C32_Step == last'.op = "getProject" /\ last'.result = "ok"

\* C32: reading a meta.json whose version differs from the current constant
\* or that lacks the brand field returns the project at the current version
\* and rewrites meta.json in the upgraded form, with the project's id and
\* name as they were; reading a meta.json that is up to date writes nothing,
\* so that a later read of the same file performs no write.
C32_MetaMigrateOnRead ==
    [][C32_Step =>
          LET d == last'.dir
          IN  /\ last'.version = PROJECT_META_VERSION
              /\ Upgraded(disk', d)
              /\ disk'[d].meta = disk[d].meta
              /\ last'.wrote = ~Upgraded(disk, d)
              /\ (last.op = "getProject" /\ last.result = "ok"
                      /\ last.projectId = last'.projectId)
                     => (~last'.wrote /\ disk'[d] = disk[d])]_vars

\* a getProject has read a meta.json that needed migration and rewritten it
C32_Witness ==
    /\ last.op = "getProject" /\ last.result = "ok" /\ last.wrote
    /\ Upgraded(disk, last.dir)

\* a getCanvas that returned the canvas last'.canvasId of directory last'.dir
C33_Step == last'.op = "getCanvas" /\ last'.result = "ok"

EmbeddedIds(canvas) == {canvas.frames[i].id : i \in 1..Len(canvas.frames)}

\* C33: a read of a canvas with zero embedded frames in a project with a
\* frames/ directory moves every legacy frame file that belongs to the canvas
\* (it names the canvas, or no canvas) into the canvas document and deletes
\* exactly those files; the legacy files of other canvases stay; and a second
\* read of the canvas right after changes nothing on disk.
C33_LegacyFramesMigrateOnce ==
    [][C33_Step =>
          LET d == last'.dir
              before == CanvasFile(disk, d, last'.canvasId)
              after == CanvasFile(disk', d, last'.canvasId)
              own == LegacyOf(disk, d, before)
          IN  /\ (before.frames = <<>> /\ disk[d].framesDir) =>
                    /\ EmbeddedIds(after) = {f.id : f \in own}
                    /\ disk'[d].legacy = disk[d].legacy \ own
              /\ (last.op = "getCanvas" /\ last.result = "ok"
                      /\ last.projectId = last'.projectId /\ last.canvasId = last'.canvasId)
                     => disk' = disk]_vars

\* two updates have written, no update is in flight, and the change of the
\* one that wrote first is not in the file the other left
C34_LostUpdate ==
    /\ UpdatesIdle
    /\ file.writer \in 1..Len(tasks)
    /\ file.content = Serialize(tasks[file.writer].doc)
    /\ \E t \in 1..Len(tasks) :
          /\ tasks[t].pc = "done" /\ t # file.writer
          /\ tasks[t].op = "createFrame"
          /\ \A i \in 1..Len(Parse(file.content).frames) :
                Parse(file.content).frames[i] # tasks[t].doc.frames[Len(tasks[t].doc.frames)]

\* C34: concurrent updates of one canvas document are not arbitrated, and
\* whenever no update is in flight the canvas file is the complete document
\* written by the update that wrote last, never a mix of two documents.
C34_FileIsLastWritersDocument ==
    (UpdatesIdle /\ file.writer \in 1..Len(tasks)) =>
        file.content = Serialize(tasks[file.writer].doc)

\* the number of advisories logged for assets directory assetDir
Advisories(assetDir) ==
    Cardinality({i \in 1..Len(hints.warned) : hints.warned[i] = assetDir})

\* C35, first half: the advisory is logged at most once per assets directory
C35_AdvisoryAtMostOnce == \A assetDir \in AssetDirs : Advisories(assetDir) <= 1

\* C35: the large-asset advisory is logged at most once per assets directory
\* of a store, however many operations ensure the project's structure, and
\* the scan of the assets never makes the operation that runs it fail.
C35_AdvisoryOnceNeverFails ==
    /\ C35_AdvisoryAtMostOnce
    /\ \A t \in 1..Len(tasks) : tasks[t].pc # "throw"

\* C36: a stop() called while a start is in flight is not lost: once the
\* start has settled (the stop() has settled before it), no child process of
\* that supervisor is alive.
C36_StopDuringStartNotLost ==
    \A c \in Callers :
        (call[c].stopRequested /\ call[c].pc = "resolved") => AliveOf(call[c].rt) = {}

\* supervisor r is Running: it holds a live child and no stop is in flight
Running(r) ==
    /\ rt[r].process # NoChild
    /\ child[rt[r].process].state = "alive"
    /\ child[rt[r].process].signalled = "none"
    /\ rt[r].stopPromise = NoPromise

\* C37: whenever ensureStarted() has resolved, the supervisor is Running: it
\* holds a live child that is not in the course of being stopped, also when
\* ensureStarted() was called while a stop() was in flight.
C37_StartedMeansRunning ==
    \A c \in Callers :
        (call[c].op = "ensureStarted" /\ call[c].pc = "resolved") => Running(call[c].rt)

\* the createProject calls that have written their meta.json
Created == {t \in 1..Len(tasks) : tasks[t].pc \in {"branches", "branch", "done"}}

\* C38: for any interleaving of createProject calls, distinct project ids
\* are mapped to distinct directories, and the meta.json a createProject
\* wrote is not overwritten by the creation of another project.
C38_CreatedProjectsKeepApart ==
    /\ \A i, j \in Ids :
          (i # j /\ projectDirIndex[i] # NoDir /\ projectDirIndex[j] # NoDir)
              => projectDirIndex[i] # projectDirIndex[j]
    /\ \A t \in Created : disk[tasks[t].dir].meta.id = tasks[t].id

RunningSupervisors == {t \in 1..Len(tasks) : tasks[t].process}

\* C39: two supervisors of different projects that are running at the same
\* time never hold the same resolved port, also when both were started
\* concurrently with the same preferred port.
C39_RunningSupervisorsPortsDiffer ==
    \A s, t \in RunningSupervisors :
        s # t => tasks[s].resolvedPort # tasks[t].resolvedPort

\* C40: after any sequence of createFrame, updateFrame and deleteFrame, every
\* frame embedded in a canvas document has canvasId equal to the id of that
\* canvas and projectId equal to the projectId of that canvas.
C40_EmbeddedFramesNameTheirCanvas ==
    \A d \in ProjectDirs : \A cv \in disk[d].canvases : \A i \in 1..Len(cv.frames) :
        /\ cv.frames[i].canvasId = cv.id
        /\ cv.frames[i].projectId = cv.projectId

====
